---- MODULE Spec2Model ----
(***************************************************************************)
(* WikiGPT question-answering pipeline: the POST /api/wikipedia/process    *)
(* route of the server, the helpers it calls, and the client wrapper       *)
(* WikipediaAPI.processQuestion that consumes its response.                *)
(*                                                                         *)
(* Strings are sequences of tokens.  A character of an input (question,    *)
(* title, extract, suggestion) is a one-character token; fixed template    *)
(* text of the source is a multi-character token copied from the source.   *)
(* Error messages, which the code never takes apart, are plain strings.    *)
(***************************************************************************)
EXTENDS Integers, Sequences, FiniteSets, TLC

(***************************************************************************)
(* Bounds of the model.                                                    *)
(***************************************************************************)
\* largest number of candidates one upstream search reply carries
MaxHits == 2
\* latest value of the wall clock
MaxTime == 1

(***************************************************************************)
(* Program constants.                                                      *)
(***************************************************************************)
\* z.string().min(1).max(1000) of the process route
MinQuestionLen == 1
MaxQuestionLen == 1000

(***************************************************************************)
(* Characters and strings.                                                 *)
(***************************************************************************)
UpperChars ==
   <<"A", "B", "C", "D", "E", "F", "G", "H", "I", "J", "K", "L", "M",
     "N", "O", "P", "Q", "R", "S", "T", "U", "V", "W", "X", "Y", "Z">>

LowerChars ==
   <<"a", "b", "c", "d", "e", "f", "g", "h", "i", "j", "k", "l", "m",
     "n", "o", "p", "q", "r", "s", "t", "u", "v", "w", "x", "y", "z">>

DigitChars == <<"0", "1", "2", "3", "4", "5", "6", "7", "8", "9">>

Range(s) == {s[i] : i \in DOMAIN s}

\* String.prototype.toLowerCase, one character
LowerChar(c) ==
   IF \E i \in DOMAIN UpperChars : UpperChars[i] = c
   THEN LowerChars[CHOOSE i \in DOMAIN UpperChars : UpperChars[i] = c]
   ELSE c

\* String.prototype.toLowerCase
toLowerCase(s) == [i \in DOMAIN s |-> LowerChar(s[i])]

\* \w of a regular expression
IsWordChar(c) ==
   c \in Range(UpperChars) \cup Range(LowerChars) \cup Range(DigitChars) \cup {"_"}

\* the regular expression \bw\b matches s at position i (w begins and ends
\* with a word character, so \b asks for a non-word neighbour on each side)
WordMatchAt(s, i, w) ==
   /\ i + Len(w) - 1 <= Len(s)
   /\ SubSeq(s, i, i + Len(w) - 1) = w
   /\ (i = 1 \/ ~IsWordChar(s[i - 1]))
   /\ (i + Len(w) > Len(s) \/ ~IsWordChar(s[i + Len(w)]))

RECURSIVE ReplaceWordFrom(_, _, _, _)
\* s.replace(new RegExp(`\\b${w}\\b`, 'gi'), r) on the suffix of s from i:
\* matches are taken left to right and the replacement is not rescanned
ReplaceWordFrom(s, i, w, r) ==
   LET matches == {a \in i..Len(s) : WordMatchAt(s, a, w)}
   IN IF matches = {} THEN SubSeq(s, i, Len(s))
      ELSE LET j == CHOOSE a \in matches : \A b \in matches : a <= b
           IN SubSeq(s, i, j - 1) \o r \o ReplaceWordFrom(s, j + Len(w), w, r)

\* the misspelling dictionary, in the order of its entries
corrections ==
   <<
      <<<<"p", "h", "i", "s", "i", "c", "s">>,
        <<"p", "h", "y", "s", "i", "c", "s">>>>,
      <<<<"c", "h", "e", "m", "e", "s", "t", "r", "y">>,
        <<"c", "h", "e", "m", "i", "s", "t", "r", "y">>>>,
      <<<<"b", "i", "o", "l", "o", "g", "y">>,
        <<"b", "i", "o", "l", "o", "g", "y">>>>,
      <<<<"p", "s", "y", "c", "o", "l", "o", "g", "y">>,
        <<"p", "s", "y", "c", "h", "o", "l", "o", "g", "y">>>>,
      <<<<"p", "s", "i", "c", "h", "o", "l", "o", "g", "y">>,
        <<"p", "s", "y", "c", "h", "o", "l", "o", "g", "y">>>>,
      <<<<"p", "h", "i", "l", "o", "s", "p", "h", "y">>,
        <<"p", "h", "i", "l", "o", "s", "o", "p", "h", "y">>>>,
      <<<<"m", "a", "t", "h", "a", "m", "a", "t", "i", "c", "s">>,
        <<"m", "a", "t", "h", "e", "m", "a", "t", "i", "c", "s">>>>,
      <<<<"a", "l", "g", "o", "r", "y", "t", "h", "m">>,
        <<"a", "l", "g", "o", "r", "i", "t", "h", "m">>>>,
      <<<<"a", "r", "t", "f", "i", "c", "i", "a", "l">>,
        <<"a", "r", "t", "i", "f", "i", "c", "i", "a", "l">>>>,
      <<<<"i", "n", "t", "e", "l", "i", "g", "e", "n", "c", "e">>,
        <<"i", "n", "t", "e", "l", "l", "i", "g", "e", "n", "c", "e">>>>,
      <<<<"q", "u", "a", "n", "t", "e", "m">>,
        <<"q", "u", "a", "n", "t", "u", "m">>>>,
      <<<<"q", "u", "a", "n", "t", "a", "m">>,
        <<"q", "u", "a", "n", "t", "u", "m">>>>,
      <<<<"h", "i", "s", "t", "e", "r", "y">>,
        <<"h", "i", "s", "t", "o", "r", "y">>>>,
      <<<<"a", "n", "c", "e", "n", "t">>,
        <<"a", "n", "c", "i", "e", "n", "t">>>>,
      <<<<"m", "e", "d", "e", "v", "a", "l">>,
        <<"m", "e", "d", "i", "e", "v", "a", "l">>>>,
      <<<<"r", "e", "n", "n", "a", "i", "s", "s", "a", "n", "c", "e">>,
        <<"r", "e", "n", "a", "i", "s", "s", "a", "n", "c", "e">>>>,
      <<<<"n", "a", "p", "o", "l", "e", "e", "n">>,
        <<"n", "a", "p", "o", "l", "e", "o", "n">>>>,
      <<<<"s", "h", "a", "k", "e", "s", "p", "e", "a", "r", "e">>,
        <<"s", "h", "a", "k", "e", "s", "p", "e", "a", "r", "e">>>>,
      <<<<"e", "i", "n", "s", "t", "i", "e", "n">>,
        <<"e", "i", "n", "s", "t", "e", "i", "n">>>>,
      <<<<"d", "a", "v", "i", "n", "c", "i">>,
        <<"d", "a", " ", "v", "i", "n", "c", "i">>>>,
      <<<<"g", "e", "o", "g", "r", "a", "p", "y">>,
        <<"g", "e", "o", "g", "r", "a", "p", "h", "y">>>>,
      <<<<"c", "o", "n", "t", "r", "y">>,
        <<"c", "o", "u", "n", "t", "r", "y">>>>,
      <<<<"c", "o", "u", "n", "r", "t", "y">>,
        <<"c", "o", "u", "n", "t", "r", "y">>>>,
      <<<<"m", "o", "u", "n", "t", "i", "a", "n">>,
        <<"m", "o", "u", "n", "t", "a", "i", "n">>>>,
      <<<<"o", "c", "e", "e", "a", "n">>,
        <<"o", "c", "e", "a", "n">>>>,
      <<<<"d", "e", "s", "e", "r", "t">>,
        <<"d", "e", "s", "e", "r", "t">>>>,
      <<<<"f", "o", "r", "r", "e", "s", "t">>,
        <<"f", "o", "r", "e", "s", "t">>>>,
      <<<<"t", "e", "c", "n", "o", "l", "o", "g", "y">>,
        <<"t", "e", "c", "h", "n", "o", "l", "o", "g", "y">>>>,
      <<<<"c", "o", "m", "p", "u", "e", "r">>,
        <<"c", "o", "m", "p", "u", "t", "e", "r">>>>,
      <<<<"p", "r", "o", "g", "r", "a", "m", "i", "n", "g">>,
        <<"p", "r", "o", "g", "r", "a", "m", "m", "i", "n", "g">>>>,
      <<<<"s", "o", "f", "w", "a", "r", "e">>,
        <<"s", "o", "f", "t", "w", "a", "r", "e">>>>,
      <<<<"h", "a", "r", "d", "w", "a", "r">>,
        <<"h", "a", "r", "d", "w", "a", "r", "e">>>>,
      <<<<"i", "n", "t", "r", "n", "e", "t">>,
        <<"i", "n", "t", "e", "r", "n", "e", "t">>>>,
      <<<<"w", "e", "b", "s", "i", "t">>,
        <<"w", "e", "b", "s", "i", "t", "e">>>>,
      <<<<"b", "e", "c", "u", "a", "s", "e">>,
        <<"b", "e", "c", "a", "u", "s", "e">>>>,
      <<<<"r", "e", "c", "i", "e", "v", "e">>,
        <<"r", "e", "c", "e", "i", "v", "e">>>>,
      <<<<"s", "e", "p", "e", "r", "a", "t", "e">>,
        <<"s", "e", "p", "a", "r", "a", "t", "e">>>>,
      <<<<"d", "e", "f", "i", "n", "a", "t", "e", "l", "y">>,
        <<"d", "e", "f", "i", "n", "i", "t", "e", "l", "y">>>>,
      <<<<"o", "c", "c", "u", "r", "e", "d">>,
        <<"o", "c", "c", "u", "r", "r", "e", "d">>>>,
      <<<<"b", "e", "g", "i", "n", "i", "n", "g">>,
        <<"b", "e", "g", "i", "n", "n", "i", "n", "g">>>>,
      <<<<"g", "o", "v", "e", "r", "m", "e", "n", "t">>,
        <<"g", "o", "v", "e", "r", "n", "m", "e", "n", "t">>>>,
      <<<<"e", "n", "v", "i", "r", "o", "m", "e", "n", "t">>,
        <<"e", "n", "v", "i", "r", "o", "n", "m", "e", "n", "t">>>>
   >>

RECURSIVE ApplyCorrections(_, _)
\* the loop over Object.entries(corrections), from entry k on; corrected is
\* the value of the loop variable, computed before the next iteration
ApplyCorrections(s, k) ==
   IF k > Len(corrections) THEN s
   ELSE LET corrected == ReplaceWordFrom(s, 1, corrections[k][1], corrections[k][2])
        IN IF Len(corrected) >= 0 THEN ApplyCorrections(corrected, k + 1) ELSE corrected

correctCommonMisspellings(query) == ApplyCorrections(toLowerCase(query), 1)

\* String.prototype.includes
Includes(s, sub) ==
   \/ sub = << >>
   \/ \E i \in 1..(Len(s) - Len(sub) + 1) :
         s[i] = sub[1] /\ SubSeq(s, i, i + Len(sub) - 1) = sub

\* the empty JSON object {}
EmptyObject == [f \in {} |-> f]

\* U+2022 BULLET of the template literals, written in ASCII
Bullet == "*"

(***************************************************************************)
(* Math.random.  A random source is a finite sequence of values in [0, 1)  *)
(* given in thousandths and read cyclically; the k-th call of a run        *)
(* returns element k.                                                      *)
(***************************************************************************)
Random(rnd, k) == rnd[((k - 1) % Len(rnd)) + 1]

\* arr[Math.floor(Math.random() * arr.length)], as a 1-based index
RandomIndex(rnd, k, n) == ((Random(rnd, k) * n) \div 1000) + 1

(***************************************************************************)
(* The "no result" answer.                                                 *)
(***************************************************************************)
encouragingResponses ==
   <<"Hmm, I couldn't find specific information about that topic on Wikipedia.",
     "That's a tricky one! I wasn't able to locate relevant Wikipedia articles for that question.",
     "Interesting question, but I'm having trouble finding Wikipedia content that matches what you're looking for.",
     "I searched through Wikipedia but couldn't find detailed information on that specific topic.">>

\* uses call k of the random source
generateNoResultResponse(q, rnd, k) ==
   <<encouragingResponses[RandomIndex(rnd, k, Len(encouragingResponses))],
     "\n\n**Here are some ways we can try to get better results:**\n",
     Bullet, " Try rephrasing with different keywords or terms\n",
     Bullet, " Check if it might be a very recent topic (Wikipedia might not have coverage yet)\n",
     Bullet, " Consider asking about a broader or more general version of the topic\n",
     Bullet, " Make sure the topic has an established Wikipedia page\n",
     "\n**Your search:** ", "\"">>
   \o q \o
   <<"\"", "\n\nFeel free to try asking in a different way - I'm here to help!">>

(***************************************************************************)
(* String helpers of the answer generation.                                *)
(***************************************************************************)
\* \s of a regular expression, and the characters String.prototype.trim strips
WhiteSpace == {" ", "\n", "\t", "\r"}

\* [.!?] of the sentence splitter
SentenceEnd == {".", "!", "?"}

RECURSIVE TrimLeft(_)
TrimLeft(s) == IF s # << >> /\ s[1] \in WhiteSpace THEN TrimLeft(Tail(s)) ELSE s

RECURSIVE TrimRight(_)
TrimRight(s) ==
   IF s # << >> /\ s[Len(s)] \in WhiteSpace THEN TrimRight(SubSeq(s, 1, Len(s) - 1)) ELSE s

\* String.prototype.trim
trim(s) == TrimRight(TrimLeft(s))

RECURSIVE TextLen(_)
\* s.length of a text: a template token counts its characters
TextLen(s) ==
   IF Len(s) = 0 THEN 0
   ELSE IF Len(s) = 1 THEN Len(s[1])
   ELSE LET half == Len(s) \div 2
        IN TextLen(SubSeq(s, 1, half)) + TextLen(SubSeq(s, half + 1, Len(s)))

Min(a, b) == IF a < b THEN a ELSE b

\* Array.prototype.slice(from, to), 0-based from, exclusive to
Slice(s, from, to) == SubSeq(s, from + 1, Min(to, Len(s)))

RECURSIVE SplitRuns(_, _)
\* s.split(/[seps]+/): the pieces between maximal runs of separators
SplitRuns(s, seps) ==
   IF \A i \in DOMAIN s : s[i] \notin seps THEN <<s>>
   ELSE LET i == CHOOSE a \in DOMAIN s :
                    s[a] \in seps /\ \A b \in 1..(a - 1) : s[b] \notin seps
            rest == {a \in (i + 1)..Len(s) : s[a] \notin seps}
            j == IF rest = {} THEN Len(s) + 1
                 ELSE CHOOSE a \in rest : \A b \in rest : a <= b
        IN <<SubSeq(s, 1, i - 1)>> \o SplitRuns(SubSeq(s, j, Len(s)), seps)

RECURSIVE SplitOn(_, _)
\* s.split(c) for a one-character separator c
SplitOn(s, c) ==
   IF \A i \in DOMAIN s : s[i] # c THEN <<s>>
   ELSE LET i == CHOOSE a \in DOMAIN s : s[a] = c /\ \A b \in 1..(a - 1) : s[b] # c
        IN <<SubSeq(s, 1, i - 1)>> \o SplitOn(SubSeq(s, i + 1, Len(s)), c)

RECURSIVE Join(_, _)
\* Array.prototype.join
Join(parts, sep) ==
   IF parts = << >> THEN << >>
   ELSE IF Len(parts) = 1 THEN parts[1]
   ELSE parts[1] \o sep \o Join(Tail(parts), sep)

\* String.prototype.startsWith
StartsWith(s, p) == Len(p) <= Len(s) /\ SubSeq(s, 1, Len(p)) = p

\* title.replace(/ /g, '_')
SpacesToUnderscores(s) == [i \in DOMAIN s |-> IF s[i] = " " THEN "_" ELSE s[i]]

\* the characters encodeURIComponent leaves alone
Unreserved ==
   Range(UpperChars) \cup Range(LowerChars) \cup Range(DigitChars)
      \cup {"-", "_", ".", "!", "~", "*", "'", "(", ")"}

\* the UTF-8 percent escapes of the other characters of the model's inputs
PercentEscapes ==
   <<<<" ", <<"%", "2", "0">>>>,
     <<"?", <<"%", "3", "F">>>>,
     <<"\"", <<"%", "2", "2">>>>,
     <<",", <<"%", "2", "C">>>>,
     <<":", <<"%", "3", "A">>>>,
     <<"/", <<"%", "2", "F">>>>,
     <<"\n", <<"%", "0", "A">>>>>>

EncodeChar(c) ==
   IF c \in Unreserved THEN <<c>>
   ELSE PercentEscapes[CHOOSE i \in DOMAIN PercentEscapes : PercentEscapes[i][1] = c][2]

RECURSIVE encodeURIComponent(_)
\* the escapes of the characters of s, concatenated
encodeURIComponent(s) ==
   IF Len(s) = 0 THEN << >>
   ELSE IF Len(s) = 1 THEN EncodeChar(s[1])
   ELSE LET half == Len(s) \div 2
        IN encodeURIComponent(SubSeq(s, 1, half))
              \o encodeURIComponent(SubSeq(s, half + 1, Len(s)))

(***************************************************************************)
(* Relevance extraction.                                                   *)
(***************************************************************************)
\* the paragraphs of 50 characters and more
RetainedParagraphsFrom50(extract) ==
   SelectSeq(SplitOn(extract, "\n"), LAMBDA p : Len(trim(p)) >= 50)

\* the paragraphs generateWikipediaResponse hands to the extractor
RetainedParagraphs(extract) ==
   SelectSeq(SplitOn(extract, "\n"), LAMBDA p : Len(trim(p)) > 50)

\* question.toLowerCase().split(/\s+/).filter(word => word.length > 3)
QueryWords(q) ==
   SelectSeq(SplitRuns(toLowerCase(q), WhiteSpace), LAMBDA w : Len(w) > 3)

RECURSIVE ScoreFrom(_, _, _)
\* the queryWords.forEach of the scoring, from word k on
ScoreFrom(lowerParagraph, words, k) ==
   IF k > Len(words) THEN 0
   ELSE (IF Includes(lowerParagraph, words[k])
         THEN (IF Len(words[k]) > 3 THEN 2 ELSE 1)
         ELSE 0) + ScoreFrom(lowerParagraph, words, k + 1)

ScoreParagraph(p, words) ==
   [paragraph |-> trim(p), score |-> ScoreFrom(toLowerCase(p), words, 1)]

\* x put before the elements of the sorted sequence that score the same
InsertByScoreBeforeTies(sorted, x) ==
   LET n == Cardinality({i \in DOMAIN sorted : sorted[i].score > x.score})
   IN SubSeq(sorted, 1, n) \o <<x>> \o SubSeq(sorted, n + 1, Len(sorted))

\* x put behind every element of the sorted sequence that does not score less
InsertByScore(sorted, x) ==
   LET n == Cardinality({i \in DOMAIN sorted : sorted[i].score >= x.score})
   IN SubSeq(sorted, 1, n) \o <<x>> \o SubSeq(sorted, n + 1, Len(sorted))

RECURSIVE SortByScoreFrom(_, _, _)
SortByScoreFrom(sorted, s, k) ==
   IF k > Len(s) THEN sorted
   ELSE SortByScoreFrom(InsertByScore(sorted, s[k]), s, k + 1)

\* the scored paragraphs left in article order
SortByScoreSkipped(s) == s

\* scoredParagraphs.sort((a, b) => b.score - a.score); Array.prototype.sort
\* is stable (ECMAScript 2019)
SortByScore(s) == SortByScoreFrom(<< >>, s, 1)

\* only the paragraphs that scored, unless none did
extractRelevantContentScoredOnly(paragraphs, q) ==
   LET queryWords == QueryWords(q)
       scoredParagraphs ==
          SortByScore([i \in DOMAIN paragraphs |-> ScoreParagraph(paragraphs[i], queryWords)])
       selectedParagraphs ==
          SelectSeq(Slice(scoredParagraphs, 0, 3), LAMBDA s : s.score > 0)
   IN IF Len(selectedParagraphs) = 0
      THEN Join(Slice(paragraphs, 0, 2), <<"\n", "\n">>)
      ELSE Join([i \in DOMAIN selectedParagraphs |-> selectedParagraphs[i].paragraph],
                <<"\n", "\n">>)

\* the selected paragraphs, whatever the top score
extractRelevantContentNoFallback(paragraphs, q) ==
   LET queryWords == QueryWords(q)
       scoredParagraphs ==
          SortByScore([i \in DOMAIN paragraphs |-> ScoreParagraph(paragraphs[i], queryWords)])
       selectedParagraphs == Slice(scoredParagraphs, 0, 3)
   IN Join([i \in DOMAIN selectedParagraphs |-> selectedParagraphs[i].paragraph],
           <<"\n", "\n">>)

extractRelevantContent(paragraphs, q) ==
   LET queryWords == QueryWords(q)
       scoredParagraphs ==
          SortByScore([i \in DOMAIN paragraphs |-> ScoreParagraph(paragraphs[i], queryWords)])
       selectedParagraphs == Slice(scoredParagraphs, 0, 3)
   IN IF Len(selectedParagraphs) = 0 \/ selectedParagraphs[1].score = 0
      THEN Join(Slice(paragraphs, 0, 2), <<"\n", "\n">>)
      ELSE Join([i \in DOMAIN selectedParagraphs |-> selectedParagraphs[i].paragraph],
                <<"\n", "\n">>)

(***************************************************************************)
(* Question classification.                                                *)
(***************************************************************************)
LitWhat == <<"w", "h", "a", "t">>
LitWhatIs == <<"w", "h", "a", "t", " ", "i", "s">>
LitWhatAre == <<"w", "h", "a", "t", " ", "a", "r", "e">>
LitHow == <<"h", "o", "w">>
LitHowDoes == <<"h", "o", "w", " ", "d", "o", "e", "s">>
LitHowTo == <<"h", "o", "w", " ", "t", "o">>
LitWhy == <<"w", "h", "y">>
LitWhyIs == <<"w", "h", "y", " ", "i", "s">>
LitWhyDoes == <<"w", "h", "y", " ", "d", "o", "e", "s">>
LitWhen == <<"w", "h", "e", "n">>
LitWhenDid == <<"w", "h", "e", "n", " ", "d", "i", "d">>
LitWhenWas == <<"w", "h", "e", "n", " ", "w", "a", "s">>
LitCompare == <<"c", "o", "m", "p", "a", "r", "e">>
LitDifference == <<"d", "i", "f", "f", "e", "r", "e", "n", "c", "e">>
LitVs == <<"v", "s">>

\* the compare rule tried before the others
detectQuestionTypeCompareFirst(q) ==
   LET lowerQuestion == toLowerCase(q)
   IN IF \/ Includes(lowerQuestion, LitCompare)
         \/ Includes(lowerQuestion, LitDifference)
         \/ Includes(lowerQuestion, LitVs)
      THEN "compare"
      ELSE IF \/ StartsWith(lowerQuestion, LitWhat)
              \/ Includes(lowerQuestion, LitWhatIs)
              \/ Includes(lowerQuestion, LitWhatAre)
      THEN "what"
      ELSE IF \/ StartsWith(lowerQuestion, LitHow)
              \/ Includes(lowerQuestion, LitHowDoes)
              \/ Includes(lowerQuestion, LitHowTo)
      THEN "how"
      ELSE IF \/ StartsWith(lowerQuestion, LitWhy)
              \/ Includes(lowerQuestion, LitWhyIs)
              \/ Includes(lowerQuestion, LitWhyDoes)
      THEN "why"
      ELSE IF \/ StartsWith(lowerQuestion, LitWhen)
              \/ Includes(lowerQuestion, LitWhenDid)
              \/ Includes(lowerQuestion, LitWhenWas)
      THEN "when"
      ELSE "general"

detectQuestionType(q) ==
   LET lowerQuestion == toLowerCase(q)
   IN IF \/ StartsWith(lowerQuestion, LitWhat)
         \/ Includes(lowerQuestion, LitWhatIs)
         \/ Includes(lowerQuestion, LitWhatAre)
      THEN "what"
      ELSE IF \/ StartsWith(lowerQuestion, LitHow)
              \/ Includes(lowerQuestion, LitHowDoes)
              \/ Includes(lowerQuestion, LitHowTo)
      THEN "how"
      ELSE IF \/ StartsWith(lowerQuestion, LitWhy)
              \/ Includes(lowerQuestion, LitWhyIs)
              \/ Includes(lowerQuestion, LitWhyDoes)
      THEN "why"
      ELSE IF \/ StartsWith(lowerQuestion, LitWhen)
              \/ Includes(lowerQuestion, LitWhenDid)
              \/ Includes(lowerQuestion, LitWhenWas)
      THEN "when"
      ELSE IF \/ Includes(lowerQuestion, LitCompare)
              \/ Includes(lowerQuestion, LitDifference)
              \/ Includes(lowerQuestion, LitVs)
      THEN "compare"
      ELSE "general"

(***************************************************************************)
(* Conversational rewrite of the selected passage.                         *)
(***************************************************************************)
sentenceConnectors ==
   <<"Essentially, ", "In simple terms, ", "Basically, ", "Put simply, ",
     "Here's the thing - ", "What's interesting is that ">>

joinConnectors ==
   <<". ", ". Additionally, ", ". Also, ", ". What's more, ", ". Interestingly, ">>

\* sentences.slice(0, 4) of makeContentConversational
MaxSentences == 4

\* content.split(/[.!?]+/).filter(s => s.trim().length > 10)
Sentences(content) ==
   SelectSeq(SplitRuns(content, SentenceEnd), LAMBDA s : Len(trim(s)) > 10)

RECURSIVE ProcessSentences(_, _, _, _)
\* the map callback of makeContentConversational on sentences i.., the next
\* call of the random source being call k; next is the call after the last
ProcessSentences(sentences, i, rnd, k) ==
   IF i > Len(sentences) THEN [out |-> << >>, next |-> k]
   ELSE LET trimmed == trim(sentences[i])
            connect == Random(rnd, k) > 700
            connected ==
               IF connect
               THEN <<sentenceConnectors[RandomIndex(rnd, k + 1, Len(sentenceConnectors))]>>
                       \o toLowerCase(trimmed)
               ELSE trimmed
            k1 == IF connect THEN k + 2 ELSE k + 1
            long == TextLen(connected) > 100
            sentence ==
               IF long /\ Random(rnd, k1) > 500
               THEN <<"**">> \o connected \o <<"**">>
               ELSE connected
            k2 == IF long THEN k1 + 1 ELSE k1
            rest == ProcessSentences(sentences, i + 1, rnd, k2)
        IN [out |-> <<sentence>> \o rest.out, next |-> rest.next]

\* questionType is not used by the code
makeContentConversational(content, questionType, rnd, k) ==
   LET processed == ProcessSentences(Slice(Sentences(content), 0, MaxSentences), 1, rnd, k)
       connector == joinConnectors[RandomIndex(rnd, processed.next, Len(joinConnectors))]
   IN [text |-> Join(processed.out, <<connector>>), next |-> processed.next + 1]

conversationalIntros ==
   <<"Great question! Let me tell you about",
     "I'd be happy to explain",
     "Here's what I can share about",
     "That's an interesting topic! From what I know,",
     "Let me break this down for you -",
     "This is a fascinating subject!">>

conclusions ==
   <<"\n\nHope this helps clarify things!",
     "\n\nPretty fascinating stuff, right?",
     "\n\nThere's definitely more to explore on this topic!",
     "\n\nLet me know if you'd like to dive deeper into any aspect!",
     "\n\nThis is just scratching the surface - there's so much more to discover!">>

\* the random source is read from call 1 on
generateConversationalResponse(q, title, content, rnd) ==
   LET questionType == detectQuestionType(q)
       intro == conversationalIntros[RandomIndex(rnd, 1, Len(conversationalIntros))]
       opening ==
          CASE questionType = "what" -> <<intro, " **">> \o title \o <<"**.\n\n">>
            [] questionType = "how" ->
                  <<intro, " Here's how ">> \o toLowerCase(title) \o <<" works:\n\n">>
            [] questionType = "why" ->
                  <<intro, " The reasoning behind ">> \o toLowerCase(title) \o <<":\n\n">>
            [] questionType = "when" ->
                  <<intro, " Looking at the timeline of ">> \o toLowerCase(title) \o <<":\n\n">>
            [] OTHER -> <<intro, " **">> \o title \o <<"**:\n\n">>
       processedContent == makeContentConversational(content, questionType, rnd, 2)
   IN opening \o processedContent.text
         \o <<conclusions[RandomIndex(rnd, processedContent.next, Len(conclusions))]>>

(***************************************************************************)
(* The answer for an article.  article is << >> (undefined) or <<page>>,   *)
(* a page being a record of the fields the content reply carries.          *)
(***************************************************************************)
SourcesHeader == "**[U+1F4DA] Sources & Further Reading:**\n"

RelatedHeader == "\n**[U+1F517] You might also be interested in:** "

WikiUrlPrefix == "https://en.wikipedia.org/wiki/"

\* article && article.extract
HasExtract(article) ==
   /\ article # << >>
   /\ "extract" \in DOMAIN article[1]
   /\ article[1].extract # << >>

Titles(results) == [i \in DOMAIN results |-> results[i].title]

generateWikipediaResponse(q, article, results, rnd) ==
   IF ~HasExtract(article) THEN generateNoResultResponse(q, rnd, 1)
   ELSE LET extract == article[1].extract
            title == article[1].title
            url == IF "fullurl" \in DOMAIN article[1] /\ article[1].fullurl # << >>
                   THEN article[1].fullurl
                   ELSE <<WikiUrlPrefix>> \o encodeURIComponent(SpacesToUnderscores(title))
            paragraphs == RetainedParagraphs(extract)
            relevantContent == extractRelevantContent(paragraphs, q)
            conversationalResponse == generateConversationalResponse(q, title, relevantContent, rnd)
            sourcesSection ==
               <<"\n\n", SourcesHeader, Bullet, " [">> \o title \o <<" on Wikipedia](">>
                  \o url \o <<")\n">>
            related ==
               IF Len(results) > 1
               THEN <<RelatedHeader>> \o Join(Titles(Slice(results, 1, 3)), <<", ">>)
               ELSE << >>
        IN conversationalResponse \o sourcesSection \o related

(***************************************************************************)
(* Inputs: the questions a client submits.                                 *)
(***************************************************************************)
Q_Empty == << >>

Q_TooLong == [i \in 1..(MaxQuestionLen + 1) |-> "a"]

\* "asdkjaslkdj"
Q_Gibberish == <<"a", "s", "d", "k", "j", "a", "s", "l", "k", "d", "j">>

\* "quantem phisics"
Q_Misspelt == <<"q", "u", "a", "n", "t", "e", "m", " ", "p", "h", "i", "s", "i", "c",
     "s">>

\* "quantum"
Q_Lower == <<"q", "u", "a", "n", "t", "u", "m">>

\* "What is quantum computing?"
Q_What == <<"W", "h", "a", "t", " ", "i", "s", " ", "q", "u", "a", "n", "t", "u",
     "m", " ", "c", "o", "m", "p", "u", "t", "i", "n", "g", "?">>

Questions == {Q_Empty, Q_TooLong, Q_Gibberish, Q_Misspelt, Q_Lower, Q_What}

(***************************************************************************)
(* Inputs: the replies of the external service.  A fetch is rejected       *)
(* ("neterr"), or answers with a status and a body that does not parse     *)
(* ("badjson") or parses to data ("json").  With a non-success status the  *)
(* service sends an error body, never results.                             *)
(***************************************************************************)
Statuses == {200, 503}

\* Response.ok
Ok(status) == status >= 200 /\ status <= 299

\* "Quantum computing"
T_QuantumComputing == <<"Q", "u", "a", "n", "t", "u", "m", " ", "c", "o", "m", "p", "u", "t",
     "i", "n", "g">>

\* "Quantum"
T_Quantum == <<"Q", "u", "a", "n", "t", "u", "m">>

\* "Physics"
T_Physics == <<"P", "h", "y", "s", "i", "c", "s">>

ArticleTitles == {T_QuantumComputing, T_Quantum, T_Physics}

PageIdOf(t) ==
   CASE t = T_QuantumComputing -> 25220
     [] t = T_Quantum -> 25202
     [] OTHER -> 22939

Candidate(t) == [title |-> t, pageid |-> PageIdOf(t)]

\* the ranked candidate lists of a search reply: distinct articles
CandidateLists ==
   {l \in UNION {[1..n -> {Candidate(t) : t \in ArticleTitles}] : n \in 0..MaxHits} :
       \A i, j \in DOMAIN l : i # j => l[i] # l[j]}

\* the body the service sends with a non-success status
ErrorData == [error |-> "internal_api_error"]

SearchData ==
   {EmptyObject} \cup {[query |-> [search |-> l]] : l \in CandidateLists}

\* the body of an opensearch reply: the array [query, titles, descriptions,
\* urls], of which titles is data[1]
SuggestData ==
   {[titles |-> ts] : ts \in {<< >>, <<<< >>>>, <<T_Quantum>>, <<T_QuantumComputing>>}}
      \cup {[titles |-> <<q>>] : q \in {Q_Gibberish, Q_Lower}}

\* the replies to a call whose successful body is one of bodies
RepliesWith(bodies) ==
   {[kind |-> "neterr"]}
      \cup {[kind |-> "badjson", status |-> s] : s \in Statuses}
      \cup {[kind |-> "json", status |-> s, data |-> d] :
               s \in {t \in Statuses : Ok(t)}, d \in bodies}
      \cup {[kind |-> "json", status |-> s, data |-> ErrorData] :
               s \in {t \in Statuses : ~Ok(t)}}

SearchReplies == RepliesWith(SearchData)

SuggestReplies == RepliesWith(SuggestData)

P_Computers ==
   <<"C", "o", "m", "p", "u", "t", "e", "r", "s", " ", "a", "r", "e", " ",
     "m", "a", "c", "h", "i", "n", "e", "s", " ", "t", "h", "a", "t", " ",
     "p", "r", "o", "c", "e", "s", "s", " ", "d", "a", "t", "a", " ", "u",
     "s", "i", "n", "g", " ", "s", "t", "o", "r", "e", "d", " ", "i", "n",
     "s", "t", "r", "u", "c", "t", "i", "o", "n", " ", "l", "i", "s", "t",
     "s", ".">>

P_Quantum ==
   <<"A", " ", "q", "u", "a", "n", "t", "u", "m", " ", "c", "o", "m", "p",
     "u", "t", "e", "r", " ", "e", "x", "p", "l", "o", "i", "t", "s", " ",
     "s", "u", "p", "e", "r", "p", "o", "s", "i", "t", "i", "o", "n", "!",
     " ", "I", "t", " ", "m", "a", "y", " ", "o", "u", "t", "p", "e", "r",
     "f", "o", "r", "m", " ", "c", "l", "a", "s", "s", "i", "c", "a", "l",
     " ", "m", "a", "c", "h", "i", "n", "e", "s", ".">>

\* a heading, a paragraph without the word quantum, and one with it
E_TwoParagraphs == <<"H", "i", "s", "t", "o", "r", "y">> \o <<"\n">> \o P_Computers \o <<"\n">> \o P_Quantum

\* no paragraph longer than 50 characters
E_Short == <<"P", "h", "y", "s", "i", "c", "s", " ", "i", "s", " ", "t", "h", "e",
     " ", "s", "t", "u", "d", "y", " ", "o", "f", " ", "m", "a", "t", "t",
     "e", "r", ".">>

U_QuantumComputing == <<"h", "t", "t", "p", "s", ":", "/", "/", "e", "n", ".", "w", "i", "k",
     "i", "p", "e", "d", "i", "a", ".", "o", "r", "g", "/", "w", "i", "k",
     "i", "/", "Q", "u", "a", "n", "t", "u", "m", "_", "c", "o", "m", "p",
     "u", "t", "i", "n", "g">>

\* the pages object of a content reply, as its entries in key order
Pages ==
   {<< >>,
    <<[key |-> "-1", page |-> [ns |-> 0, title |-> T_Physics, missing |-> << >>]]>>,
    <<[key |-> "25220",
       page |-> [pageid |-> 25220, title |-> T_QuantumComputing,
                 extract |-> E_TwoParagraphs, fullurl |-> U_QuantumComputing]]>>,
    <<[key |-> "25202",
       page |-> [pageid |-> 25202, title |-> T_Quantum, extract |-> E_TwoParagraphs]]>>,
    <<[key |-> "22939",
       page |-> [pageid |-> 22939, title |-> T_Physics, extract |-> E_Short]]>>,
    <<[key |-> "25202",
       page |-> [pageid |-> 25202, title |-> T_Quantum, extract |-> << >>]]>>}

ContentData ==
   {EmptyObject} \cup {[query |-> [pages |-> p]] : p \in Pages}

ContentReplies == RepliesWith(ContentData)

\* the random sources of a run
RandomSources == {<<0>>, <<999>>, <<800, 300>>}

(***************************************************************************)
(* The process route.  pc is the await the handler is suspended at:        *)
(*   "idle"       no request received yet                                  *)
(*   "search"     the original search is awaited                           *)
(*   "suggest"    the opensearch call of attemptSpellCorrection is awaited *)
(*   "fallback"   the search with the corrected query is awaited           *)
(*   "content"    the content fetch is awaited                             *)
(*   "responded"  the handler has sent its response                        *)
(*   "returned"   WikipediaAPI.processQuestion has returned to its caller  *)
(* fetch and response.json() of one call are one await of the model.       *)
(***************************************************************************)
VARIABLES
   pc,
   question,        \* req.body.question
   now,             \* Date.now()
   startTime,
   searchResults,
   correctedQuery,  \* << >>, or <<the value attemptSpellCorrection returned>>
   calls,           \* the outbound calls issued so far: [api, url]
   replies,         \* replies[i] is the reply to calls[i]
   inflight,        \* the indices of the calls issued and not yet answered
   sent,            \* the HTTP responses of the handler: [status, body]
   clientResult,    \* << >>, or <<the value processQuestion returned>>
   text,            \* the inputs and results of the answer generation taken alone
   reqQuery,        \* req.query of the search route
   sessions,          \* useChat: the session list
   currentSessionId,  \* useChat: NoSession, or the id of the current session
   isLoading,         \* useChat
   preferences,       \* the preferences state of the hook's useChatStorage
   localStorage,      \* the three keys of ChatStorage
   sends,             \* the sendMessage calls made so far, each with its position
   created,           \* the number of sessions createSession has made
   appended           \* the messages addMessage has put into a session, in order

vars ==
   <<pc, question, now, startTime, searchResults, correctedQuery, calls,
     replies, inflight, sent, clientResult, text, reqQuery, sessions,
     currentSessionId, isLoading, preferences, localStorage, sends, created,
     appended>>

\* the state of the chat hook and of the browser's store
chatVars ==
   <<sessions, currentSessionId, isLoading, preferences, localStorage, sends,
     created, appended>>

\* null
NoSession == 0

\* defaultPreferences, of which the hook reads saveHistory
defaultPreferences == [saveHistory |-> TRUE]

\* a store without any key of ChatStorage: an absent key is << >>
EmptyStorage ==
   [wikigpt_sessions |-> << >>,
    wikigpt_current_session |-> NoSession,
    wikigpt_preferences |-> << >>]

\* the hook before its first render
ChatOff ==
   /\ sessions = << >>
   /\ currentSessionId = NoSession
   /\ isLoading = FALSE
   /\ preferences = defaultPreferences
   /\ localStorage = EmptyStorage
   /\ sends = << >>
   /\ created = 0
   /\ appended = << >>

ApiBase == "https://en.wikipedia.org/w/api.php"

SearchUrl(query) ==
   <<ApiBase, "?action=query&list=search&srsearch=">> \o encodeURIComponent(query)
      \o <<"&format=json&srlimit=3&srprop=snippet|titlesnippet|size|wordcount">>

OpensearchUrl(query) ==
   <<ApiBase, "?action=opensearch&search=">> \o encodeURIComponent(query)
      \o <<"&limit=1&format=json">>

ContentUrl(title) ==
   <<ApiBase, "?action=query&format=json&prop=extracts|info&exintro=false&explaintext=true&titles=">>
      \o encodeURIComponent(title) \o <<"&inprop=url">>

\* the validation without its upper bound
ValidQuestionNoMax(q) == Len(q) >= MinQuestionLen

\* z.string().min(1).max(1000)
ValidQuestion(q) == Len(q) >= MinQuestionLen /\ Len(q) <= MaxQuestionLen

\* the message of the ZodError that parse throws
ValidationMessage(q) ==
   IF Len(q) < MinQuestionLen
   THEN "String must contain at least 1 character(s)"
   ELSE "String must contain at most 1000 character(s)"

\* fetch or response.json() threw
Threw(reply) == reply.kind \in {"neterr", "badjson"}

ThrownMessage(reply) ==
   IF reply.kind = "neterr" THEN "fetch failed"
   ELSE "Unexpected token < in JSON at position 0"

\* searchData.query?.search || []
SearchResultsOf(data) ==
   IF "query" \in DOMAIN data /\ "search" \in DOMAIN data.query
   THEN data.query.search
   ELSE << >>

\* the last candidate instead of the first
LastMatch(results) == results[Len(results)]

\* searchResults[0]
BestMatch(results) == results[1]

\* the titles in reverse rank order
SourcesOfReversed(results) ==
   [i \in DOMAIN results |-> results[Len(results) + 1 - i].title]

\* searchResults.map(result => result.title)
SourcesOf(results) == Titles(results)

\* pages[Object.keys(pages)[0]] of contentData.query?.pages || {}
ArticleOf(data) ==
   IF "query" \in DOMAIN data /\ "pages" \in DOMAIN data.query /\ data.query.pages # << >>
   THEN <<data.query.pages[1].page>>
   ELSE << >>

\* the dictionary applied as well when the fetch or the parse threw
attemptSpellCorrectionFallThrough(query, reply) ==
   IF ~Threw(reply)
         /\ "titles" \in DOMAIN reply.data
         /\ reply.data.titles # << >>
         /\ reply.data.titles[1] # << >>
   THEN reply.data.titles[1]
   ELSE correctCommonMisspellings(query)

\* the value attemptSpellCorrection returns once its fetch is answered
attemptSpellCorrection(query, reply) ==
   IF Threw(reply) THEN query
   ELSE IF /\ "titles" \in DOMAIN reply.data
           /\ reply.data.titles # << >>
           /\ reply.data.titles[1] # << >>
        THEN reply.data.titles[1]
        ELSE correctCommonMisspellings(query)

\* the fallback search issued whatever the suggestion
AlwaysFallback(corrected, q) == TRUE

\* correctedQuery !== question
NeedsFallback(corrected, q) == corrected # q

\* the catch block answering with an empty response text as well
CatchResponseWithText(message) ==
   [status |-> 500, body |-> [success |-> FALSE, error |-> message, response |-> << >>]]

\* the catch block
CatchResponse(message) ==
   [status |-> 500, body |-> [success |-> FALSE, error |-> message]]

\* the "no result" answer echoing the lower-cased question
NoResultAnswerLowered(q, elapsed, rnd) ==
   [status |-> 200,
    body |-> [success |-> TRUE,
              response |-> generateNoResultResponse(toLowerCase(q), rnd, 1),
              sources |-> << >>,
              processingTime |-> elapsed]]

\* lines 132-137
NoResultAnswer(q, elapsed, rnd) ==
   [status |-> 200,
    body |-> [success |-> TRUE,
              response |-> generateNoResultResponse(q, rnd, 1),
              sources |-> << >>,
              processingTime |-> elapsed]]

ArticleAnswer(q, article, results, elapsed, rnd) ==
   [status |-> 200,
    body |-> [success |-> TRUE,
              response |-> generateWikipediaResponse(q, article, results, rnd),
              sources |-> SourcesOf(results),
              processingTime |-> elapsed]]

\* the handler going on without awaiting its call
NotAwaited == inflight

\* the awaited call is answered
Settled == inflight \ {Len(calls)}

\* res.json / res.status(..).json, which ends the handler
Send(response) ==
   /\ sent' = Append(sent, response)
   /\ calls' = calls
   /\ inflight' = Settled
   /\ pc' = "responded"

\* await fetch(url)
Fetch(api, url, at) ==
   /\ calls' = Append(calls, [api |-> api, url |-> url])
   /\ inflight' = Settled \cup {Len(calls) + 1}
   /\ pc' = at
   /\ sent' = sent

\* lines 131-144: answer "no result", or fetch the content of the best match
AnswerOrFetchContent(results) ==
   IF Len(results) = 0
   THEN \E rnd \in RandomSources : Send(NoResultAnswer(question, now - startTime, rnd))
   ELSE Fetch("content", ContentUrl(BestMatch(results).title), "content")

\* the answer generation is not run on its own
TextOff == [stage |-> "off"]

Init ==
   /\ pc = "idle"
   /\ question = << >>
   /\ now = 0
   /\ startTime = 0
   /\ searchResults = << >>
   /\ correctedQuery = << >>
   /\ calls = << >>
   /\ replies = << >>
   /\ inflight = {}
   /\ sent = << >>
   /\ clientResult = << >>
   /\ text = TextOff
   /\ reqQuery = EmptyObject
   /\ ChatOff

\* the handler up to its first await
ProcessRequest ==
   /\ pc = "idle"
   /\ \E q \in Questions :
         /\ question' = q
         /\ IF ~ValidQuestion(q)
            THEN Send(CatchResponse(ValidationMessage(q))) /\ startTime' = startTime
            ELSE startTime' = now /\ Fetch("search", SearchUrl(q), "search")
   /\ UNCHANGED <<now, searchResults, correctedQuery, replies, clientResult, text>>
   /\ UNCHANGED <<reqQuery, chatVars>>

\* the original search is answered
SearchReply ==
   /\ pc = "search"
   /\ \E reply \in SearchReplies :
         /\ replies' = Append(replies, reply)
         /\ IF Threw(reply)
            THEN Send(CatchResponse(ThrownMessage(reply))) /\ searchResults' = searchResults
            ELSE IF ~Ok(reply.status)
            THEN /\ Send(CatchResponse("Wikipedia search failed: " \o ToString(reply.status)))
                 /\ searchResults' = searchResults
            ELSE /\ searchResults' = SearchResultsOf(reply.data)
                 /\ IF Len(searchResults') = 0
                    THEN Fetch("opensearch", OpensearchUrl(question), "suggest")
                    ELSE AnswerOrFetchContent(searchResults')
   /\ UNCHANGED <<question, now, startTime, correctedQuery, clientResult, text>>
   /\ UNCHANGED <<reqQuery, chatVars>>

\* the opensearch call is answered and attemptSpellCorrection returns
SuggestReply ==
   /\ pc = "suggest"
   /\ \E reply \in SuggestReplies :
         /\ replies' = Append(replies, reply)
         /\ correctedQuery' = <<attemptSpellCorrection(question, reply)>>
         /\ IF NeedsFallback(correctedQuery'[1], question)
            THEN Fetch("search", SearchUrl(correctedQuery'[1]), "fallback")
            ELSE AnswerOrFetchContent(searchResults)
   /\ UNCHANGED <<question, now, startTime, searchResults, clientResult, text>>
   /\ UNCHANGED <<reqQuery, chatVars>>

\* the search with the corrected query is answered
FallbackReply ==
   /\ pc = "fallback"
   /\ \E reply \in SearchReplies :
         /\ replies' = Append(replies, reply)
         /\ IF Threw(reply)
            THEN Send(CatchResponse(ThrownMessage(reply))) /\ searchResults' = searchResults
            ELSE /\ searchResults' = SearchResultsOf(reply.data)
                 /\ AnswerOrFetchContent(searchResults')
   /\ UNCHANGED <<question, now, startTime, correctedQuery, clientResult, text>>
   /\ UNCHANGED <<reqQuery, chatVars>>

\* the content fetch is answered
ContentReply ==
   /\ pc = "content"
   /\ \E reply \in ContentReplies :
         /\ replies' = Append(replies, reply)
         /\ IF Threw(reply)
            THEN Send(CatchResponse(ThrownMessage(reply)))
            ELSE IF ~Ok(reply.status)
            THEN Send(CatchResponse("Wikipedia content fetch failed: " \o ToString(reply.status)))
            ELSE \E rnd \in RandomSources :
                    Send(ArticleAnswer(question, ArticleOf(reply.data), searchResults,
                                       now - startTime, rnd))
   /\ UNCHANGED <<question, now, startTime, searchResults, correctedQuery, clientResult, text>>
   /\ UNCHANGED <<reqQuery, chatVars>>

\* WikipediaAPI.processQuestion returns: its own fetch was rejected, or it
\* maps the response of the route
ClientReturn ==
   /\ pc = "responded"
   /\ \E delivered \in BOOLEAN :
         clientResult' =
            IF ~delivered THEN <<[success |-> FALSE, error |-> "Failed to fetch"]>>
            ELSE IF ~Ok(sent[Len(sent)].status)
            THEN <<[success |-> FALSE,
                    error |-> "HTTP error! status: " \o ToString(sent[Len(sent)].status)]>>
            ELSE <<sent[Len(sent)].body>>
   /\ pc' = "returned"
   /\ UNCHANGED <<question, now, startTime, searchResults, correctedQuery, calls,
                  replies, inflight, sent, text>>
   /\ UNCHANGED <<reqQuery, chatVars>>

\* time passes while a call is awaited
Tick ==
   /\ pc \in {"search", "suggest", "fallback", "content"}
   /\ now < MaxTime
   /\ now' = now + 1
   /\ UNCHANGED <<pc, question, startTime, searchResults, correctedQuery, calls,
                  replies, inflight, sent, clientResult, text>>
   /\ UNCHANGED <<reqQuery, chatVars>>

Next ==
   \/ ProcessRequest
   \/ SearchReply
   \/ SuggestReply
   \/ FallbackReply
   \/ ContentReply
   \/ ClientReturn
   \/ Tick

Spec == Init /\ [][Next]_vars

TypeOK ==
   /\ pc \in {"idle", "search", "suggest", "fallback", "content", "responded", "returned"}
   /\ question \in Questions
   /\ now \in 0..MaxTime
   /\ Len(sent) <= 1

(***************************************************************************)
(* Properties of the process route.                                        *)
(***************************************************************************)
\* the handler has sent its response
Finished == pc \in {"responded", "returned"}

\* the body of the response the handler sent
Result == sent[1].body

IsFailure(r) ==
   /\ r.success = FALSE
   /\ "error" \in DOMAIN r
   /\ r.error # ""

CallsTo(api) == {i \in DOMAIN calls : calls[i].api = api}

Answered(i) == i \in DOMAIN replies

\* call i was answered with a success status and a body that parsed
Succeeded(i) ==
   /\ Answered(i)
   /\ replies[i].kind = "json"
   /\ replies[i].status = 200

\* call i was answered with a non-success status
BadStatus(i) ==
   /\ Answered(i)
   /\ replies[i].kind # "neterr"
   /\ replies[i].status # 200

\* the candidates search call i returned
CandidatesOf(i) ==
   IF "query" \in DOMAIN replies[i].data
   THEN replies[i].data.query.search
   ELSE << >>

ReturnedNone(i) == Succeeded(i) /\ Len(CandidatesOf(i)) = 0

ReturnedSome(i) == Succeeded(i) /\ Len(CandidatesOf(i)) > 0

Quoted(s) == <<"\"">> \o s \o <<"\"">>

\* C1: a question of length 0 or of length above 1000 is rejected with
\* success=false and an error message, and no outbound call is issued
C1_InvalidQuestionRejected ==
   (pc # "idle" /\ (Len(question) = 0 \/ Len(question) > 1000)) =>
      /\ Len(calls) = 0
      /\ Len(sent) = 1
      /\ IsFailure(Result)

C1_Witness ==
   /\ pc = "responded"
   /\ Len(question) > 1000
   /\ sent[1].status = 500

\* C2: when a search returned a non-empty candidate list and the run
\* succeeded, the sources are the titles of exactly that list, in rank order
C2_SourcesAreCandidateTitles ==
   (Finished /\ Result.success) =>
      \A i \in CallsTo("search") :
         ReturnedSome(i) =>
            /\ Len(Result.sources) = Len(CandidatesOf(i))
            /\ \A j \in DOMAIN Result.sources :
                  Result.sources[j] = CandidatesOf(i)[j].title

C2_Witness ==
   /\ Finished
   /\ Result.success
   /\ Len(calls) = 4
   /\ ReturnedSome(3)
   /\ Len(Result.sources) = 2

\* C3: when the original search, and the fallback search if one was issued,
\* returned zero candidates, the result is success=true with no sources, no
\* error, and a response that quotes the submitted question
C3_NoResultsIsSuccess ==
   (/\ Finished
    /\ ReturnedNone(1)
    /\ \A i \in CallsTo("search") : ReturnedNone(i)) =>
      /\ sent[1].status = 200
      /\ Result.success
      /\ "error" \notin DOMAIN Result
      /\ Result.sources = << >>
      /\ Includes(Result.response, Quoted(question))

C3_Witness ==
   /\ Finished
   /\ Len(calls) = 3
   /\ ReturnedNone(1)
   /\ ReturnedNone(3)
   /\ Result.success

\* C4: a non-success status on the original search, the fallback search or
\* the content fetch ends the run with success=false and an error message
C4_BadStatusAborts ==
   (Finished /\ \E i \in CallsTo("search") \cup CallsTo("content") : BadStatus(i)) =>
      IsFailure(Result)

\* C5: when the content reply carries the not-found sentinel (page id -1,
\* no extract) the result is success=false with an error message
C5_NotFoundIsFailure ==
   (/\ Finished
    /\ \E i \in CallsTo("content") :
          /\ Succeeded(i)
          /\ "query" \in DOMAIN replies[i].data
          /\ replies[i].data.query.pages # << >>
          /\ replies[i].data.query.pages[1].key = "-1") =>
      IsFailure(Result)

\* the results produced so far: by the handler and by processQuestion
ResultsProduced ==
   {sent[i].body : i \in DOMAIN sent} \cup {clientResult[i] : i \in DOMAIN clientResult}

\* C6: in every result, success=false comes with an error message and no
\* response text, success=true with a response text and sources and no error
C6_ResultShape ==
   \A r \in ResultsProduced :
      /\ ~r.success =>
            /\ "response" \notin DOMAIN r
            /\ "error" \in DOMAIN r
            /\ r.error # ""
      /\ r.success =>
            /\ "response" \in DOMAIN r
            /\ r.response # << >>
            /\ "sources" \in DOMAIN r
            /\ "error" \notin DOMAIN r

C6_Witness ==
   /\ pc = "returned"
   /\ sent[1].body.success
   /\ Len(sent[1].body.sources) > 0
   /\ ~clientResult[1].success

\* C7: a fallback search is issued exactly when the original search returned
\* zero candidates and the suggestion differs from the question; there are
\* never more than two searches, and no failed call is issued again
C7_OneFallback ==
   /\ Cardinality(CallsTo("search")) <= 2
   /\ (Cardinality(CallsTo("search")) = 2) =>
         /\ ReturnedNone(1)
         /\ correctedQuery # << >>
         /\ correctedQuery[1] # question
   /\ (Finished /\ ReturnedNone(1) /\ correctedQuery # << >> /\ correctedQuery[1] # question) =>
         Cardinality(CallsTo("search")) = 2
   /\ \A i, j \in DOMAIN calls :
         (i < j /\ Answered(i) /\ ~Succeeded(i)) => calls[j] # calls[i]

C7_Witness ==
   /\ Finished
   /\ Cardinality(CallsTo("search")) = 2
   /\ correctedQuery[1] # question

\* the content fetch for title t
IsContentFetchFor(call, t) == call = [api |-> "content", url |-> ContentUrl(t)]

\* C8: a run fetches content at most once, only after a search returned
\* candidates and only for the rank-0 candidate of that search; once a
\* search has returned candidates the fetch is issued
C8_OneContentFetch ==
   /\ Cardinality(CallsTo("content")) <= 1
   /\ \A i \in CallsTo("content") :
         /\ i > 1
         /\ calls[i - 1].api = "search"
         /\ ReturnedSome(i - 1)
         /\ IsContentFetchFor(calls[i], CandidatesOf(i - 1)[1].title)
   /\ \A k \in CallsTo("search") :
         ReturnedSome(k) => Cardinality(CallsTo("content")) = 1

C8_Witness ==
   /\ Finished
   /\ Len(calls) = 4
   /\ ReturnedSome(3)
   /\ Len(CandidatesOf(3)) = 2
   /\ calls[4].api = "content"

ApiSequence == [i \in DOMAIN calls |-> calls[i].api]

\* C9: the calls of a run are sequential and ordered: at most one call is in
\* flight, every call but the last is answered, the suggestion call follows
\* an original search without candidates, the content fetch follows a search
\* with candidates, and exactly one response is sent, after the last call
C9_SequentialCalls ==
   /\ Cardinality(inflight) <= 1
   /\ inflight \subseteq {Len(calls)}
   /\ Len(replies) = Len(calls) - Cardinality(inflight)
   /\ ApiSequence \in
         {<< >>, <<"search">>, <<"search", "content">>,
          <<"search", "opensearch">>, <<"search", "opensearch", "search">>,
          <<"search", "opensearch", "search", "content">>}
   /\ \A i \in CallsTo("opensearch") : ReturnedNone(i - 1)
   /\ \A i \in CallsTo("content") : ReturnedSome(i - 1)
   /\ Len(sent) <= 1
   /\ Len(sent) = 1 <=> Finished
   /\ Len(sent) = 1 => inflight = {}

C9_Witness ==
   /\ Finished
   /\ ApiSequence = <<"search", "opensearch", "search", "content">>
   /\ Len(sent) = 1

\* C10: when the suggestion call fails (rejected fetch or unparseable
\* payload) the Resolver returns the dictionary-corrected query
C10_FailureFallsThrough ==
   \A i \in CallsTo("opensearch") :
      (Answered(i) /\ replies[i].kind \in {"neterr", "badjson"}) =>
         correctedQuery = <<correctCommonMisspellings(question)>>

\* C11: the Resolver never raises: whatever the suggestion call does, it
\* returns a value and the handler goes on, and when the call failed the
\* value is the original query unchanged
C11_ResolverNeverRaises ==
   \A i \in CallsTo("opensearch") :
      Answered(i) =>
         /\ Len(correctedQuery) = 1
         /\ replies[i].kind \in {"neterr", "badjson"} => correctedQuery[1] = question
         /\ (Finished /\ Len(replies) = i) => (sent[1].status = 200 /\ Result.success)

C11_Witness ==
   /\ Finished
   /\ Len(replies) = 2
   /\ replies[2].kind = "neterr"
   /\ question = Q_Misspelt
   /\ correctedQuery = <<Q_Misspelt>>
   /\ Result.success

\* the suggestion call was answered without a usable suggestion
NoSuggestion(i) ==
   /\ Answered(i)
   /\ replies[i].kind = "json"
   /\ \/ "titles" \notin DOMAIN replies[i].data
      \/ replies[i].data.titles = << >>
      \/ replies[i].data.titles[1] = << >>

\* no whole word of q, in any letter case, is a key of the dictionary
NoMappedWord(q) ==
   \A k \in DOMAIN corrections :
      \A a \in DOMAIN q : ~WordMatchAt(toLowerCase(q), a, corrections[k][1])

\* C12: without an upstream suggestion and without a mapped misspelling the
\* Resolver returns the query character for character, letter case
\* included, and no fallback search is issued
C12_NoSuggestionKeepsQuery ==
   \A i \in CallsTo("opensearch") :
      (NoSuggestion(i) /\ NoMappedWord(question)) =>
         /\ correctedQuery = <<question>>
         /\ Cardinality(CallsTo("search")) = 1

(***************************************************************************)
(* The answer generation on its own: generateWikipediaResponse of the      *)
(* server and generateFallbackResponse of the chat panel, applied to a     *)
(* question and an article extract.                                        *)
(***************************************************************************)
\* the longest extract, in paragraphs
MaxParagraphs == 4

\* a heading
R_History == <<"H", "i", "s", "t", "o", "r", "y">>

\* 50 characters
R_Fifty == <<"Q", "u", "b", "i", "t", "s", " ", "s", "t", "o", "r", "e", " ", "q",
     "u", "a", "n", "t", "u", "m", " ", "s", "t", "a", "t", "e", "s", " ",
     "i", "n", " ", "s", "u", "p", "e", "r", "p", "o", "s", "e", "d", " ",
     "l", "e", "v", "e", "l", "s", ".", ".">>

\* 51 characters
R_FiftyOne == <<"Q", "u", "b", "i", "t", "s", " ", "s", "t", "o", "r", "e", " ", "q",
     "u", "a", "n", "t", "u", "m", " ", "s", "t", "a", "t", "e", "s", " ",
     "a", "c", "r", "o", "s", "s", " ", "s", "u", "p", "e", "r", "p", "o",
     "s", "e", "d", " ", "b", "i", "t", "s", ".">>

\* 52 characters, 48 of them between the blanks
R_Padded == <<" ", " ", "C", "l", "a", "s", "s", "i", "c", "a", "l", " ", "b", "i",
     "t", "s", " ", "h", "o", "l", "d", " ", "o", "n", "e", " ", "o", "f",
     " ", "t", "w", "o", " ", "v", "a", "l", "u", "e", "s", " ", "a", "t",
     " ", "a", " ", "t", "i", "m", "e", ".", " ", " ">>

\* 65 characters, 61 of them between the blanks
P_Tail == <<" ", " ", "E", "v", "e", "r", "y", " ", "q", "u", "a", "n", "t", "u",
     "m", " ", "m", "e", "a", "s", "u", "r", "e", "m", "e", "n", "t", " ",
     "c", "o", "l", "l", "a", "p", "s", "e", "s", " ", "t", "h", "e", " ",
     "s", "t", "a", "t", "e", " ", "t", "o", " ", "o", "n", "e", " ", "o",
     "u", "t", "c", "o", "m", "e", ".", " ", " ">>

P_Both == <<"Q", "u", "a", "n", "t", "u", "m", " ", "c", "o", "m", "p", "u", "t",
     "i", "n", "g", " ", "a", "p", "p", "l", "i", "e", "s", " ", "q", "u",
     "a", "n", "t", "u", "m", " ", "p", "h", "y", "s", "i", "c", "s", " ",
     "t", "o", " ", "h", "a", "r", "d", " ", "c", "o", "m", "p", "u", "t",
     "i", "n", "g", " ", "p", "r", "o", "b", "l", "e", "m", "s", ".">>

\* five sentences
P_Sentences == <<"Q", "u", "b", "i", "t", "s", " ", "c", "a", "n", " ", "b", "e", " ",
     "e", "n", "t", "a", "n", "g", "l", "e", "d", ".", " ", "G", "a", "t",
     "e", "s", " ", "a", "c", "t", " ", "o", "n", " ", "q", "u", "b", "i",
     "t", "s", ".", " ", "E", "r", "r", "o", "r", "s", " ", "m", "u", "s",
     "t", " ", "b", "e", " ", "c", "o", "r", "r", "e", "c", "t", "e", "d",
     ".", " ", "N", "o", "i", "s", "e", " ", "l", "i", "m", "i", "t", "s",
     " ", "d", "e", "p", "t", "h", ".", " ", "C", "o", "o", "l", "i", "n",
     "g", " ", "i", "s", " ", "c", "o", "s", "t", "l", "y", ".">>

RawParagraphs == {R_Fifty, R_FiftyOne, R_Padded, P_Computers, P_Quantum, P_Both, P_Tail}

\* the extracts: up to MaxParagraphs different lines
RawParagraphLists ==
   UNION {{l \in [1..n -> RawParagraphs] : \A i, j \in 1..n : l[i] = l[j] => i = j} :
             n \in 0..MaxParagraphs}

Q_HowIsIt == <<"h", "o", "w", " ", "i", "s", " ", "i", "t">>

Q_Topic == <<"Q", "u", "a", "n", "t", "u", "m", " ", "c", "o", "m", "p", "u", "t",
     "i", "n", "g">>

Q_WhatVs == <<"w", "h", "a", "t", " ", "i", "s", " ", "p", "y", "t", "h", "o", "n",
     " ", "v", "s", " ", "j", "a", "v", "a">>

Q_TellWhat == <<"t", "e", "l", "l", " ", "m", "e", " ", "w", "h", "a", "t", " ", "h",
     "a", "p", "p", "e", "n", "e", "d">>

Q_Compare == <<"c", "o", "m", "p", "a", "r", "e", " ", "q", "u", "a", "n", "t", "u",
     "m", " ", "c", "o", "m", "p", "u", "t", "i", "n", "g">>

Q_Why == <<"w", "h", "y", " ", "i", "s", " ", "t", "h", "e", " ", "s", "k", "y",
     " ", "b", "l", "u", "e">>

Q_When == <<"s", "o", " ", "w", "h", "e", "n", " ", "w", "a", "s", " ", "i", "t",
     " ", "b", "u", "i", "l", "t">>

\* the questions the extracts are searched for
PassageQuestions == {Q_Lower, Q_Topic, Q_HowIsIt, Q_Gibberish}

\* the questions that are classified
TypedQuestions == {Q_What, Q_WhatVs, Q_TellWhat, Q_Compare, Q_Why, Q_When}

TextInputs ==
   {[question |-> q, raw |-> l] : q \in PassageQuestions, l \in RawParagraphLists}
      \cup {[question |-> q, raw |-> <<R_History, P_Computers, P_Quantum>>] : q \in TypedQuestions}
      \cup {[question |-> Q_Lower, raw |-> <<R_History, P_Sentences>>]}

\* the page of the content reply whose extract is the lines of raw
TextArticle(raw) ==
   <<[title |-> T_QuantumComputing, extract |-> Join(raw, <<"\n">>), fullurl |-> U_QuantumComputing]>>

TextResults == <<Candidate(T_QuantumComputing), Candidate(T_Quantum)>>

\* the classifier nested in generateFallbackResponse: no compare rule
fallbackDetectQuestionType(q) ==
   LET lowerQuestion == toLowerCase(q)
   IN IF \/ StartsWith(lowerQuestion, LitWhat)
         \/ Includes(lowerQuestion, LitWhatIs)
         \/ Includes(lowerQuestion, LitWhatAre)
      THEN "what"
      ELSE IF \/ StartsWith(lowerQuestion, LitHow)
              \/ Includes(lowerQuestion, LitHowDoes)
              \/ Includes(lowerQuestion, LitHowTo)
      THEN "how"
      ELSE IF \/ StartsWith(lowerQuestion, LitWhy)
              \/ Includes(lowerQuestion, LitWhyIs)
              \/ Includes(lowerQuestion, LitWhyDoes)
      THEN "why"
      ELSE IF \/ StartsWith(lowerQuestion, LitWhen)
              \/ Includes(lowerQuestion, LitWhenDid)
              \/ Includes(lowerQuestion, LitWhenWas)
      THEN "when"
      ELSE "general"

\* sentences.slice(0, 3) of the makeContentConversational nested in
\* generateFallbackResponse
MaxFallbackSentences == 3

\* relevantContent.substring(0, 600)
MaxFallbackContent == 600

\* four sentences kept, as on the server
fallbackMakeContentConversationalFour(content, rnd, k) ==
   LET processed == ProcessSentences(Slice(Sentences(content), 0, 4), 1, rnd, k)
       connector == joinConnectors[RandomIndex(rnd, processed.next, Len(joinConnectors))]
   IN [text |-> Join(processed.out, <<connector>>), next |-> processed.next + 1]

\* the makeContentConversational nested in generateFallbackResponse
fallbackMakeContentConversational(content, rnd, k) ==
   LET processed ==
          ProcessSentences(Slice(Sentences(content), 0, MaxFallbackSentences), 1, rnd, k)
       connector == joinConnectors[RandomIndex(rnd, processed.next, Len(joinConnectors))]
   IN [text |-> Join(processed.out, <<connector>>), next |-> processed.next + 1]

fallbackConclusions ==
   <<"\n\nHope this helps clarify things!",
     "\n\nPretty fascinating stuff, right?",
     "\n\nThere's definitely more to explore on this topic!",
     "\n\nLet me know if you'd like to dive deeper into any aspect!">>

\* generateFallbackResponse of the chat panel; article is the record that
\* getArticleDirect returns, and the random source is read from call 1 on
generateFallbackResponse(q, article, results, rnd) ==
   LET extract == article.extract
       title == article.title
       url == article.url
       paragraphs == RetainedParagraphs(extract)
       relevantContent == Join(Slice(paragraphs, 0, 2), <<"\n", "\n">>)
       questionType == fallbackDetectQuestionType(q)
       intro == conversationalIntros[RandomIndex(rnd, 1, Len(conversationalIntros))]
       opening ==
          CASE questionType = "what" -> <<intro, " **">> \o title \o <<"**.\n\n">>
            [] questionType = "how" ->
                  <<intro, " Here's how ">> \o toLowerCase(title) \o <<" works:\n\n">>
            [] questionType = "why" ->
                  <<intro, " The reasoning behind ">> \o toLowerCase(title) \o <<":\n\n">>
            [] questionType = "when" ->
                  <<intro, " Looking at the timeline of ">> \o toLowerCase(title) \o <<":\n\n">>
            [] OTHER -> <<intro, " **">> \o title \o <<"**:\n\n">>
       processedContent ==
          fallbackMakeContentConversational(Slice(relevantContent, 0, MaxFallbackContent), rnd, 2)
       conclusion ==
          fallbackConclusions[RandomIndex(rnd, processedContent.next, Len(fallbackConclusions))]
       sourcesSection ==
          <<"\n\n", SourcesHeader, Bullet, " [">> \o title \o <<" on Wikipedia](">>
             \o url \o <<")\n">>
       related ==
          IF Len(results) > 1
          THEN <<RelatedHeader>> \o Join(Titles(Slice(results, 1, 3)), <<", ">>)
          ELSE << >>
   IN opening \o processedContent.text \o <<conclusion>> \o sourcesSection \o related

\* the record getArticleDirect returns for the page whose extract is the
\* lines of raw
FallbackArticle(raw) ==
   [title |-> T_QuantumComputing, extract |-> Join(raw, <<"\n">>), url |-> U_QuantumComputing]

InitText ==
   /\ pc = "idle"
   /\ question = << >>
   /\ now = 0
   /\ startTime = 0
   /\ searchResults = << >>
   /\ correctedQuery = << >>
   /\ calls = << >>
   /\ replies = << >>
   /\ inflight = {}
   /\ sent = << >>
   /\ clientResult = << >>
   /\ \E input \in TextInputs :
         text = [stage |-> "input", question |-> input.question, raw |-> input.raw]
   /\ reqQuery = EmptyObject
   /\ ChatOff

\* generateWikipediaResponse of the server, with the values it computes on
\* the way: the retained paragraphs, the passage, the question type and the
\* rewritten passage
GenerateWikipediaResponse ==
   /\ text.stage = "input"
   /\ \E rnd \in RandomSources :
         LET article == TextArticle(text.raw)
             paragraphs == RetainedParagraphs(article[1].extract)
             relevantContent == extractRelevantContent(paragraphs, text.question)
             questionType == detectQuestionType(text.question)
         IN text' = [stage |-> "server", question |-> text.question, raw |-> text.raw,
                     paragraphs |-> paragraphs,
                     relevantContent |-> relevantContent,
                     questionType |-> questionType,
                     processedContent |->
                        makeContentConversational(relevantContent, questionType, rnd, 2).text,
                     response |-> generateWikipediaResponse(text.question, article, TextResults, rnd)]
   /\ UNCHANGED <<pc, question, now, startTime, searchResults, correctedQuery, calls,
                  replies, inflight, sent, clientResult>>
   /\ UNCHANGED <<reqQuery, chatVars>>

\* generateFallbackResponse of the chat panel, with the values it computes
\* on the way: the retained paragraphs, the passage, the question type and
\* the rewritten passage
GenerateFallbackResponse ==
   /\ text.stage = "input"
   /\ \E rnd \in RandomSources :
         LET article == FallbackArticle(text.raw)
             paragraphs == RetainedParagraphs(article.extract)
             relevantContent == Join(Slice(paragraphs, 0, 2), <<"\n", "\n">>)
         IN text' = [stage |-> "client", question |-> text.question, raw |-> text.raw,
                     paragraphs |-> paragraphs,
                     relevantContent |-> relevantContent,
                     questionType |-> fallbackDetectQuestionType(text.question),
                     processedContent |->
                        fallbackMakeContentConversational(
                           Slice(relevantContent, 0, MaxFallbackContent), rnd, 2).text,
                     response |-> generateFallbackResponse(text.question, article, TextResults, rnd)]
   /\ UNCHANGED <<pc, question, now, startTime, searchResults, correctedQuery, calls,
                  replies, inflight, sent, clientResult>>
   /\ UNCHANGED <<reqQuery, chatVars>>

NextText ==
   \/ GenerateWikipediaResponse
   \/ GenerateFallbackResponse

SpecText == InitText /\ [][NextText]_vars

(***************************************************************************)
(* Properties of the answer generation.                                    *)
(***************************************************************************)
OnServer == text.stage = "server"

OnClient == text.stage = "client"

\* paragraph p contains one of the words
Hit(p, words) ==
   LET lowerParagraph == toLowerCase(p)
   IN \E k \in DOMAIN words : Includes(lowerParagraph, words[k])

\* the paragraphs of ps that contain a retained token of question q
HitIndexes(ps, q) ==
   LET words == QueryWords(q)
   IN {i \in DOMAIN ps : Hit(ps[i], words)}

BlankLine == <<"\n", "\n">>

\* passage opens with p, and p is all of it or a blank line follows
LeadsWith(passage, p) ==
   /\ StartsWith(passage, p)
   /\ \/ Len(passage) = Len(p)
      \/ SubSeq(passage, Len(p) + 1, Len(p) + 2) = BlankLine

\* C13: when exactly one retained paragraph contains a retained question
\* token, the passage opens with that paragraph (without its surrounding
\* blanks), whatever its position among the retained paragraphs.
C13_OnlyHitFirst ==
   OnServer =>
      \A i \in DOMAIN text.paragraphs :
         HitIndexes(text.paragraphs, text.question) = {i} =>
            LeadsWith(text.relevantContent, trim(text.paragraphs[i]))

\* the only paragraph with a token is the second of the two retained ones
C13_Witness ==
   /\ OnServer
   /\ text.question = Q_Lower
   /\ text.paragraphs = <<P_Computers, P_Tail>>
   /\ HitIndexes(text.paragraphs, text.question) = {2}
   /\ LeadsWith(text.relevantContent, trim(P_Tail))

\* the first two of ps with a blank line between them: what
\* paragraphs.slice(0, 2).join of two newlines gives
FirstTwo(ps) ==
   IF Len(ps) = 0 THEN << >>
   ELSE IF Len(ps) = 1 THEN ps[1]
   ELSE ps[1] \o BlankLine \o ps[2]

\* C14: when no retained paragraph contains a retained question token (the
\* question may have no token longer than 3 characters), the passage is the
\* first two retained paragraphs in article order with a blank line between
\* them, or the one paragraph or the empty text if there are fewer.
C14_NoHitFirstTwo ==
   (OnServer /\ HitIndexes(text.paragraphs, text.question) = {}) =>
      text.relevantContent = FirstTwo(text.paragraphs)

\* the question has a token, no paragraph contains it, and a third
\* paragraph is left out
C14_Witness ==
   /\ OnServer
   /\ text.question = Q_Gibberish
   /\ QueryWords(text.question) # << >>
   /\ text.paragraphs = <<P_Tail, P_Computers, P_Quantum>>
   /\ text.relevantContent = P_Tail \o BlankLine \o P_Computers

\* two paragraphs are retained and only the second contains a token
SecondOnlyHit ==
   /\ OnServer
   /\ Len(text.paragraphs) = 2
   /\ HitIndexes(text.paragraphs, text.question) = {2}

\* C15 as stated: for two retained paragraphs of which only the second
\* contains a retained question token, the passage is the second paragraph
\* alone.
C15_SecondAlone ==
   SecondOnlyHit => text.relevantContent \in {text.paragraphs[2], trim(text.paragraphs[2])}

\* C15: for two retained paragraphs of which only the second contains a
\* retained question token, the passage is the second paragraph, a blank
\* line and the first paragraph, both without their surrounding blanks: the
\* paragraph that scored 0 is part of the passage, behind the one that scored.
C15_SecondThenFirst ==
   SecondOnlyHit =>
      text.relevantContent
         = trim(text.paragraphs[2]) \o BlankLine \o trim(text.paragraphs[1])

\* "What is quantum computing?" on a heading, a paragraph without the word
\* quantum and a paragraph with it
C15_Witness ==
   /\ SecondOnlyHit
   /\ text.question = Q_What
   /\ text.raw = <<R_History, P_Computers, P_Quantum>>
   /\ text.paragraphs = <<P_Computers, P_Quantum>>
   /\ text.relevantContent = P_Quantum \o BlankLine \o P_Computers

\* two points for each of the words that paragraph p contains
HitScore(p, words) ==
   LET lowerParagraph == toLowerCase(p)
   IN 2 * Cardinality({k \in DOMAIN words : Includes(lowerParagraph, words[k])})

\* the place of each paragraph, given the scores: behind every paragraph
\* that scores more and every earlier paragraph that scores the same
Places(score) ==
   [i \in DOMAIN score |->
      1 + Cardinality({j \in DOMAIN score :
                         score[j] > score[i] \/ (score[j] = score[i] /\ j < i)})]

\* the paragraphs of ps in places 1..min(3, n), without surrounding blanks
TopThreeOf(ps, place) ==
   [r \in 1..Min(3, Len(ps)) |-> trim(ps[CHOOSE i \in DOMAIN ps : place[i] = r])]

\* the scores of the paragraphs ps for question q
HitScores(ps, q) ==
   LET words == QueryWords(q)
   IN [i \in DOMAIN ps |-> HitScore(ps[i], words)]

\* the passages made of the top three of ps for question q: exactly one
TopThreePassages(ps, q) ==
   {Join(TopThreeOf(ps, place), BlankLine) :
       place \in {Places(score) : score \in {HitScores(ps, q)}}}

\* C16: when some retained paragraph contains a retained question token, the
\* passage is the min(3, n) highest scoring of the n retained paragraphs, by
\* descending score and, among equal scores, in article order, with a blank
\* line between them; fewer than 3 retained paragraphs are all returned.
C16_TopThreeStable ==
   (OnServer /\ HitIndexes(text.paragraphs, text.question) # {}) =>
      text.relevantContent \in TopThreePassages(text.paragraphs, text.question)

\* four retained paragraphs scoring 0, 2, 2 and 4: the last comes first, the
\* two that tie keep their order and the first is left out
C16_Witness ==
   /\ OnServer
   /\ text.question = Q_Topic
   /\ text.paragraphs = <<P_Computers, P_Quantum, P_Tail, P_Both>>
   /\ HitScores(text.paragraphs, text.question) = <<0, 2, 2, 4>>
   /\ text.relevantContent = P_Both \o BlankLine \o P_Quantum \o BlankLine \o trim(P_Tail)

\* the server or the chat panel has filtered the paragraphs of the extract
Filtered == OnServer \/ OnClient

\* C17 as stated: a paragraph of the extract is discarded if and only if it
\* is shorter than 50 characters, so a paragraph of exactly 50 characters is
\* retained.
C17_DiscardedIffBelow50 ==
   Filtered => text.paragraphs = SelectSeq(text.raw, LAMBDA p : ~(Len(p) < 50))

\* C17: a paragraph of the extract is discarded if and only if it has 50
\* characters or fewer once its surrounding blanks are removed: one of
\* exactly 50 characters is discarded, one of 51 is retained, on the server
\* and in the chat panel alike.
C17_DiscardedIffAtMost50 ==
   Filtered => text.paragraphs = SelectSeq(text.raw, LAMBDA p : ~(Len(trim(p)) <= 50))

\* paragraphs of 50, 51 and 52 characters, the last with 48 between its
\* blanks: only the one of 51 is retained
C17_Witness ==
   /\ OnServer
   /\ text.raw = <<R_Fifty, R_FiftyOne, R_Padded>>
   /\ <<Len(R_Fifty), Len(R_FiftyOne), Len(R_Padded), Len(trim(R_Padded))>> = <<50, 51, 52, 48>>
   /\ text.paragraphs = <<R_FiftyOne>>

\* the rules in their priority order: a question matches a rule when its
\* lower-cased text begins with one of prefixes or contains one of parts
TypeRules ==
   <<[type |-> "what", prefixes |-> {LitWhat}, parts |-> {LitWhatIs, LitWhatAre}],
     [type |-> "how", prefixes |-> {LitHow}, parts |-> {LitHowDoes, LitHowTo}],
     [type |-> "why", prefixes |-> {LitWhy}, parts |-> {LitWhyIs, LitWhyDoes}],
     [type |-> "when", prefixes |-> {LitWhen}, parts |-> {LitWhenDid, LitWhenWas}],
     [type |-> "compare", prefixes |-> {}, parts |-> {LitCompare, LitDifference, LitVs}]>>

MatchesRule(q, rule) ==
   \/ \E p \in rule.prefixes : StartsWith(toLowerCase(q), p)
   \/ \E p \in rule.parts : Includes(toLowerCase(q), p)

\* the type of the first of rules that q matches, general if there is none
FirstRule(q, rules) ==
   LET matching == {k \in DOMAIN rules : MatchesRule(q, rules[k])}
   IN IF matching = {} THEN "general"
      ELSE rules[CHOOSE k \in matching : \A other \in matching : k <= other].type

\* C18 as stated: the type is one of the six, and a question that contains
\* the word "what" anywhere is classified what.
C18_ContainsWhatIsWhat ==
   Filtered =>
      /\ text.questionType \in {"what", "how", "why", "when", "compare", "general"}
      /\ Includes(toLowerCase(text.question), LitWhat) => text.questionType = "what"

\* C18: the type is that of the first matching rule in the order what, how,
\* why, when, compare, and general if no rule matches, where a rule matches
\* a question that begins with its interrogative word or contains one of
\* its two-word phrases (compare: contains compare, difference or vs).  A
\* question matching the what rule and the compare rule is classified what;
\* one that contains "what" elsewhere than at its start, and neither "what
\* is" nor "what are", does not match the what rule.  The classifier of the
\* chat panel has no compare rule.
C18_FirstMatchingRule ==
   /\ OnServer => text.questionType = FirstRule(text.question, TypeRules)
   /\ OnClient => text.questionType = FirstRule(text.question, SubSeq(TypeRules, 1, 4))

\* "what is python vs java" matches the what rule and the compare rule
C18_Witness ==
   /\ OnServer
   /\ text.question = Q_WhatVs
   /\ MatchesRule(text.question, TypeRules[1])
   /\ MatchesRule(text.question, TypeRules[5])
   /\ text.questionType = "what"

(***************************************************************************)
(* Properties of the sources section of an answer.                         *)
(***************************************************************************)
\* the text has a bullet whose markdown link is labelled with the title and
\* leads to some URL
HasLinkBullet(response, title) ==
   LET opening == <<Bullet, " [">> \o title \o <<" on Wikipedia](">>
   IN \E a \in 1..(Len(response) - Len(opening) + 1) :
         /\ SubSeq(response, a, a + Len(opening) - 1) = opening
         /\ \E b \in (a + Len(opening) + 1)..Len(response) : response[b] = ")\n"

\* C19: an answer for a run with at least one search candidate contains the
\* sources header and, for each title of the returned sources, a bullet that
\* is a markdown link with that title and a URL.
C19_BulletPerSource ==
   (Finished /\ Result.success /\ Result.sources # << >>) =>
      /\ Includes(Result.response, <<SourcesHeader>>)
      /\ \A i \in DOMAIN Result.sources : HasLinkBullet(Result.response, Result.sources[i])

(***************************************************************************)
(* Properties of the conversational rewrite.                               *)
(***************************************************************************)
\* the fragments of content that the rewritten text contains, whatever their
\* case: fragment k is sentence k of those longer than 10 characters
KeptOf(processed, fragments) ==
   {k \in DOMAIN fragments : Includes(toLowerCase(processed), toLowerCase(trim(fragments[k])))}

\* the sets of kept fragments of the rewrite of content: exactly one
KeptFragments(processed, content) ==
   {KeptOf(processed, fragments) : fragments \in {Sentences(content)}}

\* the sets 1..min(n, number of fragments of content): exactly one
FirstFragments(n, content) ==
   {1..Min(n, Len(fragments)) : fragments \in {Sentences(content)}}

\* C21 as stated: the rewrite of the process route keeps at most the first
\* 3 sentence fragments of the passage.
C21_ProcessKeepsThree ==
   OnServer =>
      KeptFragments(text.processedContent, text.relevantContent)
         = FirstFragments(3, text.relevantContent)

\* C21: the rewrite of the process route (generateWikipediaResponse) keeps
\* the first 4 sentence fragments longer than 10 characters of the passage,
\* or all of them if there are fewer; the rewrite of the chat panel
\* (generateFallbackResponse) keeps the first 3 of the first 600 characters
\* of its passage.
C21_FourOnServerThreeInPanel ==
   /\ OnServer =>
         KeptFragments(text.processedContent, text.relevantContent)
            = FirstFragments(4, text.relevantContent)
   /\ OnClient =>
         KeptFragments(text.processedContent, Slice(text.relevantContent, 0, MaxFallbackContent))
            = FirstFragments(3, Slice(text.relevantContent, 0, MaxFallbackContent))

\* a passage of five sentences, rewritten in the chat panel: three are kept
C21_Witness ==
   /\ OnClient
   /\ text.relevantContent = P_Sentences
   /\ Len(Sentences(text.relevantContent)) = 5
   /\ KeptFragments(text.processedContent, text.relevantContent) = {1..3}

\* the same passage rewritten on the server: four are kept
C21_ServerWitness ==
   /\ OnServer
   /\ text.relevantContent = P_Sentences
   /\ KeptFragments(text.processedContent, text.relevantContent) = {1..4}

(***************************************************************************)
(* The search route GET /api/wikipedia/search and WikipediaAPI.search.     *)
(* req.query is what Express parses from the query string: every value it  *)
(* holds is a string.  A value is written [type, value] so that the checks *)
(* of the schema are the ones zod makes.                                   *)
(***************************************************************************)
MinQueryLen == 1

MaxQueryLen == 500

MinLimit == 1

MaxLimit == 10

DefaultLimit == 5

\* a value of a parsed query string
StringValue(s) == [type |-> "string", value |-> s]

\* 501 characters
Q_LongQuery == [i \in 1..(MaxQueryLen + 1) |-> "a"]

\* the q parameters received
QueryTexts == {Q_Empty, Q_Lower, Q_Misspelt, Q_LongQuery}

\* the limit parameters received, as written in the query string
LimitTexts == {<<"0">>, <<"1">>, <<"5">>, <<"1", "0">>, <<"1", "1">>, <<"a", "b", "c">>}

\* req.query of the requests: ?q=.., ?q=..&limit=.., ?limit=.. and no
\* parameter at all
SearchRequests ==
   {[q |-> StringValue(q)] : q \in QueryTexts}
      \cup {[q |-> StringValue(q), limit |-> StringValue(l)] : q \in QueryTexts, l \in LimitTexts}
      \cup {[limit |-> StringValue(l)] : l \in LimitTexts}
      \cup {EmptyObject}

\* z.string().min(1).max(500) on the field q: the issues found
QueryIssues(query) ==
   IF "q" \notin DOMAIN query THEN <<"q: Required">>
   ELSE IF query.q.type # "string" THEN <<"q: Expected string, received " \o query.q.type>>
   ELSE IF Len(query.q.value) < MinQueryLen
   THEN <<"q: String must contain at least 1 character(s)">>
   ELSE IF Len(query.q.value) > MaxQueryLen
   THEN <<"q: String must contain at most 500 character(s)">>
   ELSE << >>

\* z.number().min(1).max(10).optional().default(5) on the field limit: the
\* issues found
LimitIssues(query) ==
   IF "limit" \notin DOMAIN query THEN << >>
   ELSE IF query.limit.type # "number"
   THEN <<"limit: Expected number, received " \o query.limit.type>>
   ELSE IF query.limit.value < MinLimit
   THEN <<"limit: Number must be greater than or equal to 1">>
   ELSE IF query.limit.value > MaxLimit
   THEN <<"limit: Number must be less than or equal to 10">>
   ELSE << >>

\* the issues that make searchQuerySchema.parse throw
SchemaIssues(query) == QueryIssues(query) \o LimitIssues(query)

\* the message of the ZodError: its issues
IssuesMessage(issues) ==
   IF Len(issues) = 1 THEN issues[1] ELSE issues[1] \o "; " \o issues[2]

\* the limit that searchQuerySchema.parse returns
ParsedLimit(query) ==
   IF "limit" \in DOMAIN query THEN query.limit.value ELSE DefaultLimit

SearchRouteUrl(q, limit) ==
   <<ApiBase, "?action=query&list=search&srsearch=">> \o encodeURIComponent(q)
      \o <<"&format=json&srlimit=", ToString(limit),
           "&srprop=snippet|titlesnippet|size|wordcount|timestamp">>

\* the catch block of the search route
SearchCatchResponse(message) ==
   [status |-> 400, body |-> [success |-> FALSE, error |-> message]]

\* lines 30-42; a candidate of the model has the fields title and pageid
SearchRouteAnswer(q, results) ==
   [status |-> 200,
    body |-> [success |-> TRUE,
              results |-> [i \in DOMAIN results |->
                             [title |-> results[i].title, pageid |-> results[i].pageid]],
              query |-> q,
              total |-> Len(results)]]

InitSearch ==
   /\ pc = "idle"
   /\ question = << >>
   /\ now = 0
   /\ startTime = 0
   /\ searchResults = << >>
   /\ correctedQuery = << >>
   /\ calls = << >>
   /\ replies = << >>
   /\ inflight = {}
   /\ sent = << >>
   /\ clientResult = << >>
   /\ text = TextOff
   /\ reqQuery = EmptyObject
   /\ ChatOff

\* the handler up to its await: the parse of req.query and the fetch
SearchRequest ==
   /\ pc = "idle"
   /\ \E request \in SearchRequests :
         /\ reqQuery' = request
         /\ IF SchemaIssues(request) # << >>
            THEN Send(SearchCatchResponse(IssuesMessage(SchemaIssues(request))))
            ELSE Fetch("search", SearchRouteUrl(request.q.value, ParsedLimit(request)), "search")
   /\ UNCHANGED <<question, now, startTime, searchResults, correctedQuery, replies,
                  clientResult, text>>
   /\ UNCHANGED chatVars

\* the fetch is answered: response.json() is awaited before response.ok is
\* looked at
SearchRouteReply ==
   /\ pc = "search"
   /\ \E reply \in SearchReplies :
         /\ replies' = Append(replies, reply)
         /\ IF Threw(reply)
            THEN Send(SearchCatchResponse(ThrownMessage(reply)))
            ELSE IF ~Ok(reply.status)
            THEN Send(SearchCatchResponse("Wikipedia API error: " \o ToString(reply.status)))
            ELSE Send(SearchRouteAnswer(reqQuery.q.value, SearchResultsOf(reply.data)))
   /\ UNCHANGED <<question, now, startTime, searchResults, correctedQuery, clientResult,
                  text, reqQuery>>
   /\ UNCHANGED chatVars

\* WikipediaAPI.search returns: its own fetch was rejected, or it maps the
\* response of the route
SearchClientReturn ==
   /\ pc = "responded"
   /\ \E delivered \in BOOLEAN :
         LET failure(message) ==
                [success |-> FALSE, results |-> << >>,
                 query |-> IF "q" \in DOMAIN reqQuery THEN reqQuery.q.value ELSE << >>,
                 total |-> 0, error |-> message]
         IN clientResult' =
               IF ~delivered THEN <<failure("Failed to fetch")>>
               ELSE IF ~Ok(sent[Len(sent)].status)
               THEN <<failure("HTTP error! status: " \o ToString(sent[Len(sent)].status))>>
               ELSE <<sent[Len(sent)].body>>
   /\ pc' = "returned"
   /\ UNCHANGED <<question, now, startTime, searchResults, correctedQuery, calls,
                  replies, inflight, sent, text, reqQuery>>
   /\ UNCHANGED chatVars

NextSearch ==
   \/ SearchRequest
   \/ SearchRouteReply
   \/ SearchClientReturn

SpecSearch == InitSearch /\ [][NextSearch]_vars

(***************************************************************************)
(* Properties of the search route.                                         *)
(***************************************************************************)
IsDigits(s) == s # << >> /\ \A i \in DOMAIN s : s[i] \in Range(DigitChars)

DigitValue(c) == (CHOOSE i \in DOMAIN DigitChars : DigitChars[i] = c) - 1

RECURSIVE DecimalValue(_)
\* the integer that a text of digits denotes
DecimalValue(s) ==
   IF s = << >> THEN 0
   ELSE 10 * DecimalValue(SubSeq(s, 1, Len(s) - 1)) + DigitValue(s[Len(s)])

\* the request has a q of 1..500 characters and a limit parameter whose text
\* denotes an integer in 1..10
QueryAndLimitInRange ==
   /\ "q" \in DOMAIN reqQuery
   /\ Len(reqQuery.q.value) \in MinQueryLen..MaxQueryLen
   /\ "limit" \in DOMAIN reqQuery
   /\ IsDigits(reqQuery.limit.value)
   /\ DecimalValue(reqQuery.limit.value) \in MinLimit..MaxLimit

\* C22: a request to the search route whose query has 1..500 characters and
\* whose limit parameter denotes an integer in 1..10 is accepted: the
\* upstream search is called, and when it answers with candidates the route
\* answers success=true with them in upstream rank order.
C22_QueryAndLimitAccepted ==
   (Finished /\ QueryAndLimitInRange) =>
      /\ Cardinality(CallsTo("search")) = 1
      /\ Succeeded(1) =>
            /\ sent[1].status = 200
            /\ Result.success
            /\ Titles(Result.results) = Titles(CandidatesOf(1))

(***************************************************************************)
(* The chat hook useChat, its store, and the submit handler of the chat    *)
(* interface.  A session is [id, title, messages], a message is            *)
(* [id, role, content, metadata]; the time stamps of both are left out.    *)
(* The id of a session is the number of the createSession call that made   *)
(* it, the id of a message names the sendMessage call that made it.        *)
(* A sendMessage call is suspended at one of its three awaits:             *)
(*   "processQuestion", "searchDirect", "getArticleDirect",                *)
(* or it is over: "returned" (blank content), "done", or "unloaded" (the   *)
(* page was reloaded under it).                                            *)
(***************************************************************************)
\* the sessions created in a run
MaxSessions == 2

\* the sendMessage calls of a run
MaxSends == 2

\* the default title of createSession
NewChat == <<"New Chat">>

\* the longest first message that becomes a title unchanged
TitleMax == 50

\* the characters kept of a longer one
TitleKeep == 47

\* 50 characters
C_Fifty == <<"W", "h", "a", "t", " ", "i", "s", " ", "t", "h", "e", " ", "h", "i",
     "s", "t", "o", "r", "y", " ", "o", "f", " ", "q", "u", "a", "n", "t",
     "u", "m", " ", "c", "o", "m", "p", "u", "t", "i", "n", "g", " ", "r",
     "e", "s", "e", "a", "r", "c", "h", "?">>

\* 51 characters
C_FiftyOne == <<"H", "o", "w", " ", "d", "o", "e", "s", " ", "a", " ", "q", "u", "a",
     "n", "t", "u", "m", " ", "c", "o", "m", "p", "u", "t", "e", "r", " ",
     "f", "a", "c", "t", "o", "r", " ", "l", "a", "r", "g", "e", " ", "i",
     "n", "t", "e", "g", "e", "r", "s", "?", "?">>

\* only white space
C_Blank == <<" ", " ">>

\* the text of the input box, with white space around it
I_Padded == <<" ">> \o C_Fifty \o <<" ", "\n">>

\* handleSubmit's optional parameter (the question of a sample button, or
\* nothing) and the text of the input box
SubmitInputs ==
   {[message |-> << >>, input |-> << >>],
    [message |-> << >>, input |-> C_Blank],
    [message |-> << >>, input |-> I_Padded],
    [message |-> C_FiftyOne, input |-> I_Padded],
    [message |-> C_Blank, input |-> << >>]}

\* undefined
Undefined == << >>

createSession(id) == [id |-> id, title |-> NewChat, messages |-> << >>]

createMessage(id, role, content, metadata) ==
   [id |-> id, role |-> role, content |-> content, metadata |-> metadata]

\* the title cut after 46 characters
updateSessionTitleShorter(session, firstMessage) ==
   IF Len(session.messages) <= 1
   THEN IF Len(firstMessage) > TitleMax
        THEN SubSeq(firstMessage, 1, TitleKeep - 1) \o <<"...">>
        ELSE firstMessage
   ELSE session.title

updateSessionTitle(session, firstMessage) ==
   IF Len(session.messages) <= 1
   THEN IF Len(firstMessage) > TitleMax
        THEN SubSeq(firstMessage, 1, TitleKeep) \o <<"...">>
        ELSE firstMessage
   ELSE session.title

\* { ...a, ...b }
Spread(a, b) ==
   [f \in DOMAIN a \cup DOMAIN b |-> IF f \in DOMAIN b THEN b[f] ELSE a[f]]

\* the updater applied to the first session, whatever the id
updateSessionFirst(prev, sessionId, updates) ==
   [i \in DOMAIN prev |-> IF i = 1 THEN Spread(prev[i], updates) ELSE prev[i]]

\* the updater of updateSession
updateSession(prev, sessionId, updates) ==
   [i \in DOMAIN prev |->
      IF prev[i].id = sessionId THEN Spread(prev[i], updates) ELSE prev[i]]

\* the updater appending to the session that is current
addMessageToCurrent(prev, sessionId, message) ==
   [i \in DOMAIN prev |->
      IF prev[i].id = currentSessionId
      THEN [prev[i] EXCEPT !.messages = Append(@, message)]
      ELSE prev[i]]

\* the updater of addMessage
addMessage(prev, sessionId, message) ==
   [i \in DOMAIN prev |->
      IF prev[i].id = sessionId
      THEN [prev[i] EXCEPT !.messages = Append(@, message)]
      ELSE prev[i]]

SessionIds(list) == {list[i].id : i \in DOMAIN list}

\* list.find(s => s.id === id) || null
FindSession(list, id) ==
   IF id \in SessionIds(list)
   THEN <<list[CHOOSE i \in DOMAIN list :
                  list[i].id = id /\ \A j \in 1..(i - 1) : list[j].id # id]>>
   ELSE << >>

\* list.filter(s => s.id !== id)
WithoutSession(list, id) == SelectSeq(list, LAMBDA s : s.id # id)

\* chatStorage.loadSessions()
loadSessions(store) ==
   IF store.wikigpt_sessions = << >> THEN << >> ELSE store.wikigpt_sessions[1]

\* chatStorage.loadPreferences()
loadPreferences(store) ==
   IF store.wikigpt_preferences = << >> THEN defaultPreferences
   ELSE Spread(defaultPreferences, store.wikigpt_preferences[1])

\* the save effect writing whatever the list holds
AfterEffectsAlways(store, prefs, list, current, rendered) ==
   [store EXCEPT
      !.wikigpt_sessions = IF rendered /\ prefs.saveHistory THEN <<list>> ELSE @,
      !.wikigpt_current_session = current]

\* the store after the two saving effects: the session list is saved when a
\* new list was rendered, the current id whenever it changed
AfterEffects(store, prefs, list, current, rendered) ==
   [store EXCEPT
      !.wikigpt_sessions =
         IF rendered /\ Len(list) > 0 /\ prefs.saveHistory THEN <<list>> ELSE @,
      !.wikigpt_current_session = current]

\* the record of one addMessage call turning prev into next: the session it
\* named, whether another session was current, whether prev held the named
\* session, and the sessions of next that hold the message
Appended(prev, next, sessionId, message) ==
   <<[message |-> message.id,
      session |-> sessionId,
      away |-> currentSessionId # sessionId,
      present |-> sessionId \in SessionIds(prev),
      into |-> {next[i].id : i \in {j \in DOMAIN next :
                   \E m \in DOMAIN next[j].messages :
                      next[j].messages[m].id = message.id}}]>>

\* the sendMessage calls suspended at an await
InFlight ==
   {k \in DOMAIN sends :
       sends[k].stage \in {"processQuestion", "searchDirect", "getArticleDirect"}}

\* the URL of searchDirect
SearchDirectUrl(query, limit) ==
   <<ApiBase, "?action=query&list=search&srsearch=">> \o encodeURIComponent(query)
      \o <<"&format=json&origin=*&srlimit=", ToString(limit),
           "&srprop=snippet|titlesnippet|size|wordcount|timestamp">>

\* the URL of getArticleDirect
ArticleDirectUrl(title) ==
   <<ApiBase, "?action=query&format=json&prop=extracts|info&exintro=false&explaintext=true&titles=">>
      \o encodeURIComponent(title) \o <<"&origin=*&inprop=url">>

\* the random sources of the answers made in the browser
ChatRandomSources == {<<0>>, <<999>>}

\* the results asked of searchDirect
DirectLimit == 3

\* the answer in a response of the process route
BackendAnswer ==
   <<"Great question! Let me tell you about", " **">> \o T_QuantumComputing
      \o <<"**.\n\n">> \o P_Quantum

\* what the process route answers to a question the schema accepts
ProcessReplies ==
   {[kind |-> "neterr"],
    [kind |-> "badjson", status |-> 200],
    [kind |-> "json", status |-> 200,
     data |-> [success |-> TRUE, response |-> BackendAnswer,
               sources |-> SourcesOf(TextResults), processingTime |-> 1]],
    [kind |-> "json", status |-> 500, data |-> CatchResponse("fetch failed").body]}

\* WikipediaAPI.processQuestion, given the reply to its fetch
processQuestion(reply) ==
   IF reply.kind = "neterr" THEN [success |-> FALSE, error |-> "Failed to fetch"]
   ELSE IF ~Ok(reply.status)
   THEN [success |-> FALSE, error |-> "HTTP error! status: " \o ToString(reply.status)]
   ELSE IF reply.kind = "badjson" THEN [success |-> FALSE, error |-> ThrownMessage(reply)]
   ELSE reply.data

\* what the search of the encyclopedia answers to the browser
DirectSearchReplies ==
   {[kind |-> "neterr"],
    [kind |-> "json", status |-> 503, data |-> ErrorData],
    [kind |-> "json", status |-> 200, data |-> [query |-> [search |-> << >>]]],
    [kind |-> "json", status |-> 200, data |-> [query |-> [search |-> TextResults]]]}

\* WikipediaAPI.searchDirect, given the reply to its fetch: the status is
\* not looked at
searchDirect(reply) ==
   IF Threw(reply) THEN << >> ELSE SearchResultsOf(reply.data)

\* what the content query answers to the browser: no page, a missing
\* page, a page with its extract, and a page without the extract key
DirectArticleReplies ==
   {[kind |-> "neterr"],
    [kind |-> "json", status |-> 200, data |-> EmptyObject],
    [kind |-> "json", status |-> 200,
     data |-> [query |-> [pages |-> <<[key |-> "-1",
                                        page |-> [ns |-> 0, title |-> T_Physics,
                                                  missing |-> << >>]]>>]]],
    [kind |-> "json", status |-> 200,
     data |-> [query |-> [pages |-> <<[key |-> "25220",
                                        page |-> [pageid |-> 25220,
                                                  title |-> T_QuantumComputing,
                                                  extract |-> E_TwoParagraphs,
                                                  fullurl |-> U_QuantumComputing]]>>]]],
    [kind |-> "json", status |-> 200,
     data |-> [query |-> [pages |-> <<[key |-> "25220",
                                        page |-> [pageid |-> 25220,
                                                  title |-> T_QuantumComputing]]>>]]]}

\* WikipediaAPI.getArticleDirect, given the reply to its fetch: << >> is
\* null.  Reading the title of no page throws inside the try block.
getArticleDirect(title, reply) ==
   IF Threw(reply) THEN << >>
   ELSE LET pages == IF "query" \in DOMAIN reply.data /\ "pages" \in DOMAIN reply.data.query
                     THEN reply.data.query.pages
                     ELSE << >>
        IN IF pages = << >> THEN << >>
           ELSE IF pages[1].key = "-1" THEN << >>
           ELSE LET page == pages[1].page
                    url == IF "fullurl" \in DOMAIN page /\ page.fullurl # << >>
                           THEN page.fullurl
                           ELSE <<WikiUrlPrefix>>
                                   \o encodeURIComponent(SpacesToUnderscores(title))
                    given == "extract" \in DOMAIN page
                    words == IF given /\ page.extract # << >>
                             THEN Len(SplitOn(page.extract, " "))
                             ELSE 0
                IN <<Spread([title |-> page.title, url |-> url, wordCount |-> words],
                            IF given THEN [extract |-> page.extract] ELSE EmptyObject)>>

\* the message of the catch block
ApologyText ==
   <<"I apologize, but I'm having trouble connecting to Wikipedia right now. Please check your internet connection and try again.">>

\* the id of the message of a role made by the k-th sendMessage call
MessageId(k, role) == <<k, role>>

\* the catch block appending nothing
CatchMessageNone(k) == << >>

\* the message the catch block makes, as the messages to append
CatchMessage(k) ==
   <<createMessage(MessageId(k, "assistant"), "assistant", ApologyText, Undefined)>>

\* the finally block leaving isLoading as it is
FinallyLoadingKept(loading) == loading

\* the finally block: setIsLoading(false)
FinallyLoading(loading) == FALSE

RECURSIVE AddMessages(_, _, _)
\* addMessage for each message of a list, in order
AddMessages(prev, sessionId, messages) ==
   IF messages = << >> THEN prev
   ELSE AddMessages(addMessage(prev, sessionId, messages[1]), sessionId, Tail(messages))

\* the state of the page: what is neither the hook's nor the store's nor
\* the outbound calls
routeVars ==
   <<pc, question, now, startTime, searchResults, correctedQuery, inflight,
     sent, clientResult, text, reqQuery>>

\* the preferences key of the store when the page is loaded: absent, or
\* written by the settings dialog of an earlier visit with the switch
\* "Save chat history" off
StoredPreferences == {<< >>, <<[saveHistory |-> FALSE]>>}

\* the first render of the page over a store without sessions
InitChat ==
   /\ pc = "idle"
   /\ question = << >>
   /\ now = 0
   /\ startTime = 0
   /\ searchResults = << >>
   /\ correctedQuery = << >>
   /\ calls = << >>
   /\ replies = << >>
   /\ inflight = {}
   /\ sent = << >>
   /\ clientResult = << >>
   /\ text = TextOff
   /\ reqQuery = EmptyObject
   /\ sessions = << >>
   /\ currentSessionId = NoSession
   /\ isLoading = FALSE
   /\ \E stored \in StoredPreferences :
         /\ localStorage = [EmptyStorage EXCEPT !.wikigpt_preferences = stored]
         /\ preferences = loadPreferences(localStorage)
   /\ sends = << >>
   /\ created = 0
   /\ appended = << >>

\* sendMessage up to its first await
sendMessage(content) ==
   IF trim(content) = << >>
   THEN /\ sends' = Append(sends, [content |-> content, targetSessionId |-> NoSession,
                                   stage |-> "returned", searchResults |-> << >>])
        /\ UNCHANGED <<sessions, currentSessionId, isLoading, preferences,
                       localStorage, created, appended, calls>>
   ELSE LET k == Len(sends) + 1
            creating == currentSessionId = NoSession
            targetSessionId == IF creating THEN created + 1 ELSE currentSessionId
            withSession ==
               IF creating THEN <<createSession(targetSessionId)>> \o sessions
               ELSE sessions
            userMessage == createMessage(MessageId(k, "user"), "user", content, Undefined)
            withMessage == addMessage(withSession, targetSessionId, userMessage)
            currentSession == FindSession(sessions, currentSessionId)
            retitled ==
               IF currentSession # << >> /\ Len(currentSession[1].messages) = 0
               THEN updateSession(withMessage, targetSessionId,
                                  [title |-> updateSessionTitle(currentSession[1], content)])
               ELSE withMessage
        IN /\ creating => created < MaxSessions
           /\ sessions' = retitled
           /\ currentSessionId' = targetSessionId
           /\ created' = IF creating THEN created + 1 ELSE created
           /\ appended' = appended \o Appended(withSession, withMessage, targetSessionId, userMessage)
           /\ isLoading' = TRUE
           /\ sends' = Append(sends, [content |-> content,
                                      targetSessionId |-> targetSessionId,
                                      stage |-> "processQuestion",
                                      searchResults |-> << >>])
           /\ calls' = Append(calls, [api |-> "process", question |-> content])
           /\ localStorage' =
                 AfterEffects(localStorage, preferences, retitled, targetSessionId, TRUE)
           /\ UNCHANGED preferences

\* the early return taken for an empty message only
RefusedWhenEmpty(messageToSend) == messageToSend = << >>

\* the early return of handleSubmit: !messageToSend || isLoading
Refused(messageToSend) == messageToSend = << >> \/ isLoading

\* handleSubmit of the chat interface: the send button, the Enter key and
\* the sample buttons
HandleSubmit ==
   /\ Len(sends) < MaxSends
   /\ \E submit \in SubmitInputs :
         LET messageToSend ==
                IF submit.message # << >> THEN submit.message ELSE trim(submit.input)
         IN IF Refused(messageToSend)
            THEN UNCHANGED <<chatVars, calls>>
            ELSE sendMessage(messageToSend)
   /\ UNCHANGED <<routeVars, replies>>

\* the end of a sendMessage call: the messages it appends last, and the
\* finally block
Finish(k, messages) ==
   LET target == sends[k].targetSessionId
       list == AddMessages(sessions, target, messages)
   IN /\ sessions' = list
      /\ appended' =
            appended \o (IF messages = << >> THEN << >>
                         ELSE Appended(sessions, list, target, messages[1]))
      /\ isLoading' = FinallyLoading(isLoading)
      /\ sends' = [sends EXCEPT ![k].stage = "done"]
      /\ localStorage' =
            AfterEffects(localStorage, preferences, list, currentSessionId,
                         messages # << >>)
      /\ UNCHANGED <<currentSessionId, preferences, created>>

\* processQuestion returns: the answer of the backend is appended, or the
\* direct search is started
ProcessQuestionReturn ==
   /\ \E k \in DOMAIN sends :
         /\ sends[k].stage = "processQuestion"
         /\ \E reply \in ProcessReplies :
               LET content == sends[k].content
                   response == processQuestion(reply)
               IN IF response.success /\ "response" \in DOMAIN response
                        /\ response.response # << >>
                     THEN /\ Finish(k, <<createMessage(
                                           MessageId(k, "assistant"), "assistant",
                                           response.response,
                                           [sources |-> response.sources,
                                            searchQuery |-> content,
                                            processingTime |-> response.processingTime])>>)
                          /\ UNCHANGED calls
                     ELSE /\ sends' = [sends EXCEPT ![k].stage = "searchDirect"]
                          /\ calls' = Append(calls,
                                             [api |-> "searchDirect",
                                              url |-> SearchDirectUrl(content, DirectLimit)])
                          /\ UNCHANGED <<sessions, currentSessionId, isLoading,
                                         preferences, localStorage, created, appended>>
   /\ UNCHANGED <<routeVars, replies>>

\* searchDirect returns: without results the "no result" answer is
\* appended, with results the first article is fetched
SearchDirectReturn ==
   /\ \E k \in DOMAIN sends :
         /\ sends[k].stage = "searchDirect"
         /\ \E reply \in DirectSearchReplies, rnd \in ChatRandomSources :
               LET content == sends[k].content
                   results == searchDirect(reply)
               IN IF Len(results) > 0
                     THEN /\ sends' = [sends EXCEPT ![k].stage = "getArticleDirect",
                                                    ![k].searchResults = results]
                          /\ calls' = Append(calls,
                                             [api |-> "getArticleDirect",
                                              url |-> ArticleDirectUrl(results[1].title)])
                          /\ UNCHANGED <<sessions, currentSessionId, isLoading,
                                         preferences, localStorage, created, appended>>
                     ELSE /\ Finish(k, <<createMessage(
                                           MessageId(k, "assistant"), "assistant",
                                           generateNoResultResponse(content, rnd, 1),
                                           Undefined)>>)
                          /\ UNCHANGED calls
   /\ UNCHANGED <<routeVars, replies>>

\* getArticleDirect returns: the answer is made of the article, or it is
\* the "no result" answer, or making it throws and the catch block answers
ArticleDirectReturn ==
   /\ \E k \in DOMAIN sends :
         /\ sends[k].stage = "getArticleDirect"
         /\ \E reply \in DirectArticleReplies, rnd \in ChatRandomSources :
               LET content == sends[k].content
                   results == sends[k].searchResults
                   article == getArticleDirect(results[1].title, reply)
                   metadata == [sources |-> Titles(results), searchQuery |-> content]
               IN IF article = << >>
                     THEN Finish(k, <<createMessage(
                                        MessageId(k, "assistant"), "assistant",
                                        generateNoResultResponse(content, rnd, 1),
                                        metadata)>>)
                     ELSE IF "extract" \in DOMAIN article[1]
                     THEN Finish(k, <<createMessage(
                                        MessageId(k, "assistant"), "assistant",
                                        generateFallbackResponse(content, article[1],
                                                                 results, rnd),
                                        metadata)>>)
                     ELSE Finish(k, CatchMessage(k))
   /\ UNCHANGED <<routeVars, calls, replies>>

\* createNewSession, from the New Chat button
CreateNewSession ==
   /\ created < MaxSessions
   /\ LET newSession == createSession(created + 1)
          list == <<newSession>> \o sessions
      IN /\ sessions' = list
         /\ currentSessionId' = newSession.id
         /\ created' = created + 1
         /\ localStorage' = AfterEffects(localStorage, preferences, list, newSession.id, TRUE)
   /\ UNCHANGED <<isLoading, preferences, sends, appended, calls, replies, routeVars>>

\* switchSession, from an entry of the session list
SwitchSession ==
   /\ \E i \in DOMAIN sessions :
         /\ currentSessionId' = sessions[i].id
         /\ localStorage' =
               AfterEffects(localStorage, preferences, sessions, sessions[i].id, FALSE)
   /\ UNCHANGED <<sessions, isLoading, preferences, sends, created, appended, calls,
                  replies, routeVars>>

\* the list clearCurrentSession leaves: the same list without a current
\* session
clearCurrentSession(list, current) ==
   IF current = NoSession THEN list
   ELSE updateSession(list, current, [messages |-> << >>])

\* clearCurrentSession
ClearCurrentSession ==
   /\ IF currentSessionId = NoSession
      THEN UNCHANGED <<sessions, localStorage>>
      ELSE LET list == clearCurrentSession(sessions, currentSessionId)
           IN /\ sessions' = list
              /\ localStorage' =
                    AfterEffects(localStorage, preferences, list, currentSessionId, TRUE)
   /\ UNCHANGED <<currentSessionId, isLoading, preferences, sends, created, appended,
                  calls, replies, routeVars>>

\* the current id left as it is when the current session is deleted
deleteSessionKeepingCurrent(sessionId) ==
   LET list == WithoutSession(sessions, sessionId)
   IN /\ sessions' = list
      /\ currentSessionId' = currentSessionId
      /\ localStorage' = AfterEffects(localStorage, preferences, list, currentSessionId, TRUE)

\* deleteSession
deleteSession(sessionId) ==
   LET list == WithoutSession(sessions, sessionId)
       remainingSessions == WithoutSession(sessions, sessionId)
       current ==
          IF currentSessionId = sessionId
          THEN IF Len(remainingSessions) > 0 THEN remainingSessions[1].id ELSE NoSession
          ELSE currentSessionId
   IN /\ sessions' = list
      /\ currentSessionId' = current
      /\ localStorage' = AfterEffects(localStorage, preferences, list, current, TRUE)

\* deleteSession called with the id of any session made so far
DeleteSession ==
   /\ \E sessionId \in 1..created : deleteSession(sessionId)
   /\ UNCHANGED <<isLoading, preferences, sends, created, appended, calls, replies,
                  routeVars>>

\* the page is loaded again: the state is made anew, the load effect reads
\* the store, the saving effects follow, and the calls under way are gone
Reload ==
   /\ LET savedSessions == loadSessions(localStorage)
          savedCurrentId == localStorage.wikigpt_current_session
          current ==
             IF savedCurrentId # NoSession /\ savedCurrentId \in SessionIds(savedSessions)
             THEN savedCurrentId
             ELSE IF Len(savedSessions) > 0 THEN savedSessions[1].id
             ELSE NoSession
          prefs == loadPreferences(localStorage)
      IN /\ sessions' = savedSessions
         /\ currentSessionId' = current
         /\ preferences' = prefs
         /\ localStorage' = AfterEffects(localStorage, prefs, savedSessions, current, TRUE)
   /\ isLoading' = FALSE
   /\ sends' = [k \in DOMAIN sends |->
                  IF k \in InFlight THEN [sends[k] EXCEPT !.stage = "unloaded"]
                  ELSE sends[k]]
   /\ UNCHANGED <<created, appended, calls, replies, routeVars>>

NextChat ==
   \/ HandleSubmit
   \/ ProcessQuestionReturn
   \/ SearchDirectReturn
   \/ ArticleDirectReturn
   \/ CreateNewSession
   \/ SwitchSession
   \/ ClearCurrentSession
   \/ DeleteSession
   \/ Reload

SpecChat == InitChat /\ [][NextChat]_vars

\* sendMessage with the steps that end a call or take its target away:
\* the replies, the deletion of a session and the reload of the page
NextSend ==
   \/ HandleSubmit
   \/ ProcessQuestionReturn
   \/ SearchDirectReturn
   \/ ArticleDirectReturn
   \/ DeleteSession
   \/ Reload

\* every awaited call of sendMessage is answered or fails: a fetch settles
SpecSendLive ==
   /\ InitChat
   /\ [][NextSend]_vars
   /\ WF_vars(ProcessQuestionReturn)
   /\ WF_vars(SearchDirectReturn)
   /\ WF_vars(ArticleDirectReturn)

(***************************************************************************)
(* The updaters of the session list taken alone: addMessage, updateSession *)
(* and clearCurrentSession applied to a session list, with any id.  calls  *)
(* holds the calls made: the updater, the id it was given, and the list    *)
(* before and after.                                                       *)
(***************************************************************************)
\* the sessions of a list at the start
MaxListed == 2

\* the updater calls of a run
MaxCalls == 2

\* the ids a caller may name: ids of sessions, and ids of no session
CallIds == 0..(MaxListed + 1)

\* the title a caller of updateSession sets
Renamed == <<"Renamed">>

\* a message of an earlier sendMessage call
EarlierMessage == createMessage(MessageId(0, "user"), "user", Q_Lower, Undefined)

\* the message a caller of addMessage appends
CallMessage == createMessage(MessageId(1, "assistant"), "assistant", ApologyText, Undefined)

\* the updates a caller of updateSession passes
CallUpdates == {[title |-> Renamed], [messages |-> << >>]}

\* the sessions the list may hold at the start: new ones and ones with a
\* message
ListedSessions ==
   {[createSession(id) EXCEPT !.messages = ms] :
       id \in 1..(MaxListed + 1), ms \in {<< >>, <<EarlierMessage>>}}

\* the session lists at the start: no id twice
SessionLists ==
   {l \in UNION {[1..n -> ListedSessions] : n \in 0..MaxListed} :
       \A i, j \in DOMAIN l : i # j => l[i].id # l[j].id}

InitUpdaters ==
   /\ pc = "idle"
   /\ question = << >>
   /\ now = 0
   /\ startTime = 0
   /\ searchResults = << >>
   /\ correctedQuery = << >>
   /\ calls = << >>
   /\ replies = << >>
   /\ inflight = {}
   /\ sent = << >>
   /\ clientResult = << >>
   /\ text = TextOff
   /\ reqQuery = EmptyObject
   /\ sessions \in SessionLists
   /\ currentSessionId \in {NoSession} \cup SessionIds(sessions)
   /\ isLoading = FALSE
   /\ preferences = defaultPreferences
   /\ localStorage =
         AfterEffects(EmptyStorage, preferences, sessions, currentSessionId, TRUE)
   /\ sends = << >>
   /\ created = MaxListed + 1
   /\ appended = << >>

\* setSessions with the list an updater returns, and the save effect
SetSessions(updater, sessionId, list) ==
   /\ sessions' = list
   /\ localStorage' = AfterEffects(localStorage, preferences, list, currentSessionId, TRUE)
   /\ calls' = Append(calls, [api |-> updater, sessionId |-> sessionId,
                              prev |-> sessions, next |-> list])
   /\ UNCHANGED <<currentSessionId, isLoading, preferences, sends, created, appended,
                  replies, routeVars>>

AddMessageCall ==
   /\ Len(calls) < MaxCalls
   /\ \E sessionId \in CallIds :
         SetSessions("addMessage", sessionId,
                     addMessage(sessions, sessionId, CallMessage))

UpdateSessionCall ==
   /\ Len(calls) < MaxCalls
   /\ \E sessionId \in CallIds, updates \in CallUpdates :
         SetSessions("updateSession", sessionId,
                     updateSession(sessions, sessionId, updates))

ClearCurrentSessionCall ==
   /\ Len(calls) < MaxCalls
   /\ SetSessions("clearCurrentSession", currentSessionId,
                  clearCurrentSession(sessions, currentSessionId))

NextUpdaters ==
   \/ AddMessageCall
   \/ UpdateSessionCall
   \/ ClearCurrentSessionCall

SpecUpdaters == InitUpdaters /\ [][NextUpdaters]_vars

(***************************************************************************)
(* Properties of the chat hook.                                            *)
(***************************************************************************)
\* the k-th sendMessage call was given blank content
Blank(k) == trim(sends[k].content) = << >>

\* the k-th sendMessage call has run to its end
Over(k) == sends[k].stage = "done"

\* the addMessage calls of the k-th sendMessage call, in order
AppendsOf(k) == SelectSeq(appended, LAMBDA e : e.message[1] = k)

\* the messages of the session with an id, << >> without such a session
MessagesOf(id) ==
   IF FindSession(sessions, id) = << >> THEN << >> ELSE FindSession(sessions, id)[1].messages

\* C23: a sendMessage call with non-blank content that has finished made
\* exactly two addMessage calls, the user message and then one assistant
\* message, each put into the target session and nowhere else if the list
\* held the target at that moment (as it did for the user message); a call
\* with blank content appended nothing and fetched nothing, so there are as
\* many calls of the process route as calls with non-blank content.
C23_OneQuestionOneAnswer ==
   /\ \A k \in DOMAIN sends :
         IF Blank(k)
         THEN sends[k].stage = "returned" /\ AppendsOf(k) = << >>
         ELSE Over(k) =>
                 LET target == sends[k].targetSessionId
                     made == AppendsOf(k)
                 IN /\ Len(made) = 2
                    /\ made[1].message = MessageId(k, "user")
                    /\ made[2].message = MessageId(k, "assistant")
                    /\ made[1].session = target /\ made[2].session = target
                    /\ made[1].present /\ made[1].into = {target}
                    /\ made[2].into = IF made[2].present THEN {target} ELSE {}
   /\ Cardinality(CallsTo("process")) = Cardinality({k \in DOMAIN sends : ~Blank(k)})
   /\ Len(calls) <= 3 * Cardinality({k \in DOMAIN sends : ~Blank(k)})

\* a call with blank content has returned, and another call has ended in
\* the catch block with its apology in the target session
C23_Witness ==
   /\ \E k \in DOMAIN sends : Blank(k) /\ sends[k].content # << >>
   /\ \E k \in DOMAIN sends :
         /\ Over(k)
         /\ \E m \in DOMAIN MessagesOf(sends[k].targetSessionId) :
               LET message == MessagesOf(sends[k].targetSessionId)[m]
               IN /\ message.id = MessageId(k, "assistant")
                  /\ message.content = ApologyText
                  /\ m > 1
                  /\ MessagesOf(sends[k].targetSessionId)[m - 1].id = MessageId(k, "user")

\* C24: while a sendMessage call is suspended at one of its awaits
\* isLoading is true, and whenever isLoading is true it is false again
\* later, whatever the backend, the direct search and the making of the
\* answer do.
C24_LoadingUntilDone ==
   /\ []((InFlight # {}) => isLoading)
   /\ (isLoading ~> ~isLoading)

\* a call that went through the direct search and the article fetch has
\* ended and isLoading is false again
C24_Witness ==
   /\ ~isLoading
   /\ \E k \in DOMAIN sends : Over(k) /\ sends[k].searchResults # << >>

\* C25: at most one sendMessage call is suspended at an await at any time,
\* and the messages are appended in the order of the calls: no message of
\* a later call comes before a message of an earlier one.
C25_OneSendInFlight ==
   /\ Cardinality(InFlight) <= 1
   /\ \A a, b \in DOMAIN appended :
         a < b => appended[a].message[1] <= appended[b].message[1]
   /\ isLoading <=> InFlight # {}

\* a second call is under way after the first one has got its reply
C25_Witness ==
   /\ Len(sends) = 2
   /\ ~Blank(1) /\ Over(1)
   /\ InFlight = {2}
   /\ Len(AppendsOf(1)) = 2 /\ Len(AppendsOf(2)) = 1

\* the sessions of a list that hold a message made by the k-th call
HoldersOf(list, k) ==
   {list[i].id : i \in {j \in DOMAIN list :
       \E m \in DOMAIN list[j].messages : list[j].messages[m].id[1] = k}}

\* C26: every message of a sendMessage call was addressed to the session
\* that was the target when the message was sent and went into that
\* session and no other, whichever session was current when it arrived; if
\* the list no longer held the target the message went into no session;
\* and no session but the target holds a message of the call, in the list
\* or in the store.
C26_ReplyToTarget ==
   /\ \A a \in DOMAIN appended :
         LET e == appended[a]
             target == sends[e.message[1]].targetSessionId
         IN /\ e.session = target
            /\ e.into = IF e.present THEN {target} ELSE {}
   /\ \A k \in DOMAIN sends :
         /\ HoldersOf(sessions, k) \subseteq {sends[k].targetSessionId}
         /\ HoldersOf(loadSessions(localStorage), k) \subseteq {sends[k].targetSessionId}

\* one reply arrived while another session was current and went into its
\* target, and one arrived after its target was deleted and while another
\* session was in the list
C26_Witness ==
   /\ \E a \in DOMAIN appended :
         /\ appended[a].message[2] = "assistant"
         /\ appended[a].away
         /\ appended[a].into = {appended[a].session}
   /\ \E a \in DOMAIN appended :
         /\ appended[a].message[2] = "assistant"
         /\ ~appended[a].present
         /\ sessions # << >>

OnlySessionChanged(prev, next, id) ==
   /\ Len(next) = Len(prev)
   /\ \A i \in DOMAIN prev :
         /\ next[i].id = prev[i].id
         /\ prev[i].id # id => next[i] = prev[i]

\* C28: every call of addMessage, updateSession and clearCurrentSession
\* leaves the list with as many sessions, in the same order, every session
\* but the one with the given (or current) id as it was, and the whole
\* list as it was when no session has that id.
C28_OnlyNamedSession ==
   \A c \in DOMAIN calls :
      /\ OnlySessionChanged(calls[c].prev, calls[c].next, calls[c].sessionId)
      /\ calls[c].sessionId \notin SessionIds(calls[c].prev)
            => calls[c].next = calls[c].prev

\* one call changed the second of two sessions, and one named an id of no
\* session
C28_Witness ==
   /\ \E c \in DOMAIN calls :
         /\ Len(calls[c].prev) = 2
         /\ calls[c].sessionId = calls[c].prev[2].id
         /\ calls[c].next[2] # calls[c].prev[2]
   /\ \E c \in DOMAIN calls :
         /\ calls[c].prev # << >>
         /\ calls[c].sessionId \notin SessionIds(calls[c].prev)

\* the value of the sessions key of the store: << >> without the key
Stored == localStorage.wikigpt_sessions

TitleIn(list, id) == FindSession(list, id)[1].title

\* the title made of a first message: the message of at most 50
\* characters, the first 47 characters and three dots of a longer one
TitleOfMessage(content) ==
   IF Len(content) <= 50 THEN content ELSE SubSeq(content, 1, 47) \o <<"...">>

=============================================================================
